---------------------------- MODULE Spec2Model ----------------------------
(***************************************************************************)
(* MetalliSense spectrometer simulator: the message-broker layer.          *)
(*                                                                         *)
(*   - _topic_matches: the filter matching rule of the in-process broker   *)
(*     (src/embedded_mqtt.py), checked as a pure function under SpecMatch. *)
(*   - EmbeddedMQTTBroker: queue, dispatch thread, subscriber registry and *)
(*     retained store, with the caller threads and the dispatch thread     *)
(*     interleaved at the granularity of the Python statements that read   *)
(*     or write shared state (the code takes no lock), under SpecEmb.      *)
(*   - SimpleTCPMQTTBroker (src/tcp_mqtt_broker.py): sessions, the frame   *)
(*     parsers and the forwarding loop, under SpecTcp.                     *)
(*   - SpectrometerMQTTServer (src/mqtt_server.py): start() with its three *)
(*     backends, stop(), and the in-process broker's dispatch thread as    *)
(*     far as the server's own calls reach it, under SpecSup.              *)
(*   - EmbeddedMQTTBroker.start()/stop() called repeatedly, with the       *)
(*     dispatch threads they leave behind, under SpecLife.                 *)
(*   - the wire broker's session table over many connections (SpecAcc),    *)
(*     one EmbeddedMQTTClient on its broker (SpecCli), and both brokers    *)
(*     given the same calls (SpecEq).                                      *)
(*                                                                         *)
(* A Python str is a sequence of one-character strings, a bytes object a   *)
(* sequence of numbers 0..255.                                             *)
(***************************************************************************)
EXTENDS Integers, Sequences, FiniteSets, TLC

VARIABLES
    \* --- SpecMatch: one evaluation of _topic_matches
    mpc, mTopic, mPattern, mResult,
    \* --- EmbeddedMQTTBroker
    running,            \* self.running
    subscribers,        \* self.subscribers: dict, as its entry table (insertion order)
    lists,              \* the list objects the dict's values refer to
    retained_messages,  \* self.retained_messages: dict, as its entry table
    message_queue,      \* self.message_queue
    wst,                \* the dispatch threads (_run_broker), by worker id
    tst,                \* the caller threads inside subscribe / unsubscribe
    log,                \* per callback: the invocations it has received
    pubs,               \* history: every publish call, in enqueue order
    regVer,             \* history: number of mutations of self.subscribers
    completed,          \* history: ids of the messages whose dispatch has ended
    nSub, nUnsub, nSubOk,  \* history: subscribe / unsubscribe calls begun, subscribe calls returned normally
    \* --- SimpleTCPMQTTBroker
    tcp_running,        \* self.running
    tcp_clients,        \* self.clients: socket -> client data
    tcp_subscriptions,  \* self.subscriptions: dict, as its entry table (insertion order)
    tcp_lists,          \* the list objects the dict's values refer to
    tcp_retained,       \* self.retained_messages: topic -> payload bytes
    sock,               \* per connection: the server-side socket object
    outbox,             \* per connection: what has been sent to the client
    hst,                \* the handler threads (_handle_client), by socket
    nFrames,            \* history: number of frames received
    rcvd,               \* history: every publish frame received and parsed, in order
    handled,            \* history: the received publishes whose handling has ended
    srv,                \* the thread inside the broker's own publish(topic, payload)
    tcp_stopped,        \* history: stop() has been called
    \* --- SpectrometerMQTTServer and the module globals it works through
    sup_running,        \* self.running
    client,             \* self.client: 0 for None, else the client object's number
    clients,            \* the client objects created so far: kind and connected flag
    use_embedded,       \* self.use_embedded
    _broker_instance,   \* tcp_mqtt_broker._broker_instance
    _embedded_broker,   \* embedded_mqtt._embedded_broker and the broker it refers to
    st,                 \* the application thread inside start() / stop()
    sup_pubs,           \* history: every publish call made on a client object
    nCalls,             \* history: start(), stop() and generate_reading() calls begun
    metal_grade,        \* self.metal_grade
    incorrect_elements_count,  \* self.incorrect_elements_count
    temperature,        \* self.temperature, as str() prints it
    latest_reading,     \* self.latest_reading
    dispatch,           \* the in-process broker's dispatch thread inside _deliver_message
    nInbound,           \* history: messages other parties have published
    sup_log,            \* history: the on_message and generate_reading calls, in order
    \* --- EmbeddedMQTTBroker: start() and stop()
    broker_thread,      \* self.broker_thread: the thread start() made last
    lifecycle,          \* the thread calling start() / stop(): where it is
    nLife,              \* history: start() and stop() calls begun
    \* --- SimpleTCPMQTTBroker: the sessions of many connections
    acc_clients,        \* self.clients: connection -> its entry
    nAccepted,          \* history: connections accepted so far
    \* --- EmbeddedMQTTClient on its broker
    cli_connected,      \* self.connected
    _subscriptions,     \* self._subscriptions: topic -> the callback stored for it
    cli_subscribers,    \* the broker's self.subscribers: topic -> list of callbacks
    cli_last,           \* history: per topic, the client's last call on it
    cli_log,            \* history: the on_message calls, in order
    nCb,                \* history: message_callback closures created
    nCli,               \* history: calls made
    \* --- the two brokers given the same calls
    eq_subscribers,     \* in-process broker: self.subscribers, in insertion order
    eq_retained,        \* in-process broker: self.retained_messages
    eq_received,        \* in-process broker: per client, the deliveries in order
    eq_subscriptions,   \* wire broker: self.subscriptions, in insertion order
    eq_tcp_retained,    \* wire broker: self.retained_messages
    eq_tcp_received,    \* wire broker: per client, the deliveries in order
    nEq                 \* history: calls made

matchVars == <<mpc, mTopic, mPattern, mResult>>
embVars == <<running, subscribers, lists, retained_messages, message_queue,
             wst, tst, log, pubs, regVer, completed, nSub, nUnsub, nSubOk>>
tcpVars == <<tcp_running, tcp_clients, tcp_subscriptions, tcp_lists,
             tcp_retained, sock, outbox, hst, nFrames, rcvd, handled, srv,
             tcp_stopped>>
cfgVars == <<metal_grade, incorrect_elements_count, temperature, latest_reading>>
inVars == <<dispatch, nInbound, sup_log>>
supVars == <<sup_running, client, clients, use_embedded, _broker_instance,
             _embedded_broker, st, sup_pubs, nCalls, cfgVars, inVars>>
lifeVars == <<broker_thread, lifecycle, nLife>>
accVars == <<acc_clients, nAccepted>>
cliVars == <<cli_connected, _subscriptions, cli_subscribers, cli_last, cli_log,
             nCb, nCli>>
eqVars == <<eq_subscribers, eq_retained, eq_received, eq_subscriptions,
            eq_tcp_retained, eq_tcp_received, nEq>>
moreVars == <<lifeVars, accVars, cliVars, eqVars>>
vars == <<matchVars, embVars, tcpVars, supVars, moreVars>>
\* what the actions of one component leave unchanged
notMatch == <<embVars, tcpVars, supVars, moreVars>>
notEmb == <<matchVars, tcpVars, supVars, moreVars>>
notTcp == <<matchVars, embVars, supVars, moreVars>>
notSup == <<matchVars, embVars, tcpVars, moreVars>>

-----------------------------------------------------------------------------
(* Bounds *)

\* longest topic / filter string SpecMatch enumerates
MaxLen == 3
\* publish, subscribe and unsubscribe calls made on the in-process broker
MaxOps == 3
\* frames the wire broker receives, over all connections, and calls of its
\* own publish
MaxFrames == 3
\* start(), stop() and generate_reading() calls the application makes on the
\* server, and messages other parties publish on the server's broker
MaxCalls == 4
\* start() and stop() calls made on the in-process broker
MaxLife == 3
\* connections the wire broker accepts, one after another
MaxConns == 6
\* connect, disconnect, subscribe, unsubscribe and publish calls made by and
\* around one in-process client
MaxCliOps == 5
\* subscribe and publish calls given to both brokers
MaxEqOps == 3

\* the characters strings are built from: a level character, the level
\* separator and the multi-level wildcard
Alphabet == {"a", "/", "#"}

Strs(n) == UNION {[1..k -> Alphabet] : k \in 0..n}

-----------------------------------------------------------------------------
(* Python str helpers *)

\* str.startswith
StartsWith(s, p) == Len(p) <= Len(s) /\ SubSeq(s, 1, Len(p)) = p

\* `c in s`
Contains(s, c) == \E i \in 1..Len(s) : s[i] = c

\* s.replace(c, ""): every occurrence of the character c removed
RECURSIVE RemoveAll(_, _)
RemoveAll(s, c) ==
    IF s = <<>> THEN <<>>
    ELSE IF Head(s) = c THEN RemoveAll(Tail(s), c)
    ELSE <<Head(s)>> \o RemoveAll(Tail(s), c)

\* a variant that strips one trailing "/#" (the standard's rule, under which
\* "sensor/#" also matches "sensor")
_topic_matches_parent(topic, pattern) ==
    IF pattern = <<"#">> THEN TRUE
    ELSE IF pattern = topic THEN TRUE
    ELSE IF Contains(pattern, "#")
         THEN LET stripped == RemoveAll(pattern, "#")
                  prefix == IF stripped # <<>> /\ stripped[Len(stripped)] = "/"
                            THEN SubSeq(stripped, 1, Len(stripped) - 1)
                            ELSE stripped
              IN  StartsWith(topic, prefix)
    ELSE FALSE

\* EmbeddedMQTTBroker._topic_matches(topic, pattern)
_topic_matches(topic, pattern) ==
    IF pattern = <<"#">> THEN TRUE
    ELSE IF pattern = topic THEN TRUE
    ELSE IF Contains(pattern, "#")
         THEN LET prefix == RemoveAll(pattern, "#")
              IN  StartsWith(topic, prefix)
    ELSE FALSE

-----------------------------------------------------------------------------
(* SpecMatch: _topic_matches applied to every topic and filter up to MaxLen *)

MatchInit ==
    /\ mpc = "in"
    /\ mTopic \in Strs(MaxLen)
    /\ mPattern \in Strs(MaxLen)
    /\ mResult = FALSE

MatchIdle ==
    /\ mpc = "off" /\ mTopic = <<>> /\ mPattern = <<>> /\ mResult = FALSE

Match ==
    /\ mpc = "in"
    /\ mResult' = _topic_matches(mTopic, mPattern)
    /\ mpc' = "out"
    /\ UNCHANGED <<mTopic, mPattern, notMatch>>

-----------------------------------------------------------------------------
(* EmbeddedMQTTBroker: domains *)

BTopics == {<<"a">>, <<"a", "/", "a">>}
BFilters == {<<"#">>, <<"a">>}
Payloads == {"X"}
Callbacks == {"c1", "c2"}
\* the callbacks whose body raises an Exception when invoked
RaisingCallbacks == {"c2"}
Threads == {"t1"}
WorkerIds == {"w1", "w2"}

NoMsg == [topic |-> <<>>, payload |-> "", retain |-> FALSE, id |-> 0]
NoItem == [key |-> <<>>, payload |-> "", id |-> 0]

OpsBegun == Len(pubs) + nSub + nUnsub

\* a dispatch thread outside / inside _run_broker
WNone == [pc |-> "none", msg |-> NoMsg, size |-> 0, left |-> 0, pos |-> 0,
          lid |-> 0, idx |-> 0, cb |-> "", ver |-> 0, aborted |-> FALSE]
\* a caller thread outside subscribe / unsubscribe
TIdle == [pc |-> "idle", op |-> "", filter |-> <<>>, cb |-> "", lid |-> 0,
          size |-> 0, pos |-> 0, item |-> NoItem,
          startLog |-> 0, pubStart |-> 0, subBefore |-> 0, err |-> FALSE]

(* A Python dict is its entry table: entries in insertion order, a deleted
   entry staying in place as a dead slot (CPython compacts the table only on a
   resize, which the sizes here never reach). *)
LiveIdx(tab, key) ==
    LET S == {i \in DOMAIN tab : tab[i].live /\ tab[i].key = key}
    IN  IF S = {} THEN 0 ELSE CHOOSE i \in S : TRUE
HasKey(tab, key) == LiveIdx(tab, key) # 0
LiveCount(tab) == Cardinality({i \in DOMAIN tab : tab[i].live})
NextLive(tab, pos) ==
    LET S == {i \in DOMAIN tab : i > pos /\ tab[i].live}
    IN  IF S = {} THEN 0 ELSE CHOOSE i \in S : \A j \in S : i <= j

\* self.retained_messages[topic] = payload (the store never deletes)
RetainedIdx(tab, key) ==
    LET S == {i \in DOMAIN tab : tab[i].key = key}
    IN  IF S = {} THEN 0 ELSE CHOOSE i \in S : TRUE
\* a store that keeps the first payload written for a topic
RetainedPutFirst(tab, key, payload, id) ==
    IF RetainedIdx(tab, key) = 0
    THEN Append(tab, [key |-> key, payload |-> payload, id |-> id])
    ELSE tab
RetainedPut(tab, key, payload, id) ==
    LET i == RetainedIdx(tab, key)
        e == [key |-> key, payload |-> payload, id |-> id]
    IN  IF i = 0 THEN Append(tab, e) ELSE [tab EXCEPT ![i] = e]

\* list.remove(x): the first occurrence
RECURSIVE ListRemove(_, _)
ListRemove(l, x) ==
    IF l = <<>> THEN <<>>
    ELSE IF Head(l) = x THEN Tail(l)
    ELSE <<Head(l)>> \o ListRemove(Tail(l), x)
ListHas(l, x) == \E i \in DOMAIN l : l[i] = x

\* queue.Queue.get of a LIFO queue: the newest message first
QueueGetNewest(q) == [msg |-> q[Len(q)], rest |-> SubSeq(q, 1, Len(q) - 1)]
\* self.message_queue.get(): queue.Queue is FIFO
QueueGet(q) == [msg |-> Head(q), rest |-> Tail(q)]

LogEntry(m, via) == [topic |-> m.topic, payload |-> m.payload, id |-> m.id, via |-> via]

EmbInit ==
    /\ running = FALSE
    /\ subscribers = <<>>
    /\ lists = <<>>
    /\ retained_messages = <<>>
    /\ message_queue = <<>>
    /\ wst = [w \in WorkerIds |-> WNone]
    /\ tst = [t \in Threads |-> TIdle]
    /\ log = [c \in Callbacks |-> <<>>]
    /\ pubs = <<>>
    /\ regVer = 0
    /\ completed = {}
    /\ nSub = 0 /\ nUnsub = 0 /\ nSubOk = 0

-----------------------------------------------------------------------------
(* EmbeddedMQTTBroker: lifecycle, publish and the dispatch thread *)

\* start(): `if self.running: return True`, else set the flag and start the
\* dispatch thread
EmbStart ==
    /\ ~running
    /\ running' = TRUE
    /\ LET w == CHOOSE x \in WorkerIds : wst[x].pc = "none"
       IN  wst' = [wst EXCEPT ![w] = [WNone EXCEPT !.pc = "get"]]
    /\ UNCHANGED <<notEmb, subscribers, lists, retained_messages, message_queue, tst,
                   log, pubs, regVer, completed, nSub, nUnsub, nSubOk>>

\* publish(topic, payload, retain): build the message and put it on the queue
Publish(topic, payload, retain) ==
    /\ OpsBegun < MaxOps
    /\ LET m == [topic |-> topic, payload |-> payload, retain |-> retain,
                 id |-> Len(pubs) + 1]
       IN  /\ message_queue' = Append(message_queue, m)
           /\ pubs' = Append(pubs, [msg |-> m, running |-> running,
                                    subBegun |-> nSub, subOk |-> nSubOk])
    /\ UNCHANGED <<notEmb, running, subscribers, lists, retained_messages, wst, tst,
                   log, regVer, completed, nSub, nUnsub, nSubOk>>

\* _run_broker: `while self.running`, then
\* `message = self.message_queue.get(timeout=0.1)`.  On an empty queue the get
\* times out (queue.Empty, `continue`) and the thread is back here: it stays
\* at "get" until a message is there.  The local `message` keeps the last
\* message until the next one is taken.
\* Then _deliver_message: `if message.retain:
\* self.retained_messages[topic] = payload`.  (One step with the get: only
\* this thread takes from the queue and only it writes the retained store, so
\* a step of another thread between the two commutes with the get.)
RunGet(w) ==
    /\ wst[w].pc = "get"
    /\ running
    /\ message_queue # <<>>
    /\ LET g == QueueGet(message_queue)
       IN  /\ message_queue' = g.rest
           /\ wst' = [wst EXCEPT ![w] = [WNone EXCEPT !.pc = "iter", !.msg = g.msg]]
           /\ retained_messages' =
                 IF g.msg.retain
                 THEN RetainedPut(retained_messages, g.msg.topic, g.msg.payload, g.msg.id)
                 ELSE retained_messages
    /\ UNCHANGED <<notEmb, running, subscribers, lists, tst, log,
                   pubs, regVer, completed, nSub, nUnsub, nSubOk>>

\* _deliver_message: `self.subscribers.items()` iterator created; it records
\* the dict's size
DeliverIter(w) ==
    /\ wst[w].pc = "iter"
    /\ wst' = [wst EXCEPT ![w].pc = "next",
                          ![w].size = LiveCount(subscribers),
                          ![w].left = LiveCount(subscribers),
                          ![w].pos = 0,
                          ![w].ver = regVer]
    /\ UNCHANGED <<notEmb, running, subscribers, lists, retained_messages, message_queue,
                   tst, log, pubs, regVer, completed, nSub, nUnsub, nSubOk>>

\* the dispatch of the worker's message ends: normally (the dict iterator is
\* exhausted) or by an exception that reaches _run_broker's `except Exception`
DispatchEnds(w, byError) ==
    /\ wst' = [wst EXCEPT ![w].pc = "get", ![w].aborted = byError,
                          ![w].lid = 0, ![w].idx = 0, ![w].cb = "",
                          ![w].size = 0, ![w].left = 0, ![w].pos = 0]
    /\ completed' = completed \cup {wst[w].msg.id}

\* _deliver_message: the dict iterator's next().  A size other than the
\* recorded one raises RuntimeError("dictionary changed size during
\* iteration"); with the size restored by a delete and an insert, an entry
\* beyond the recorded count is yielded (CPython < 3.8) or raises
\* RuntimeError("dictionary keys changed during iteration") (CPython >= 3.8).
DeliverNext(w) ==
    /\ wst[w].pc = "next"
    /\ LET i == NextLive(subscribers, wst[w].pos)
       IN  IF LiveCount(subscribers) # wst[w].size
           THEN DispatchEnds(w, TRUE)
           ELSE IF i = 0
           THEN DispatchEnds(w, FALSE)
           ELSE \E keysChangedRaises \in BOOLEAN :
                  IF wst[w].left = 0 /\ keysChangedRaises
                  THEN DispatchEnds(w, TRUE)
                  ELSE /\ (wst[w].left = 0 \/ ~keysChangedRaises)
                       /\ wst' = [wst EXCEPT
                             ![w].pos = i,
                             ![w].left = IF wst[w].left = 0 THEN 0 ELSE wst[w].left - 1,
                             ![w].lid = IF _topic_matches(wst[w].msg.topic, subscribers[i].key)
                                        THEN subscribers[i].lid ELSE 0,
                             ![w].idx = 0,
                             ![w].pc = IF _topic_matches(wst[w].msg.topic, subscribers[i].key)
                                       THEN "cbnext" ELSE "next"]
                       /\ UNCHANGED completed
    /\ UNCHANGED <<notEmb, running, subscribers, lists, retained_messages, message_queue,
                   tst, log, pubs, regVer, nSub, nUnsub, nSubOk>>

\* _deliver_message: `for callback in callbacks`, the list iterator's next()
DeliverCbNext(w) ==
    /\ wst[w].pc = "cbnext"
    /\ IF wst[w].idx < Len(lists[wst[w].lid])
       THEN wst' = [wst EXCEPT ![w].cb = lists[wst[w].lid][wst[w].idx + 1],
                               ![w].idx = wst[w].idx + 1,
                               ![w].pc = "call"]
       ELSE wst' = [wst EXCEPT ![w].pc = "next", ![w].lid = 0, ![w].idx = 0,
                               ![w].cb = ""]
    /\ UNCHANGED <<notEmb, running, subscribers, lists, retained_messages, message_queue,
                   tst, log, pubs, regVer, completed, nSub, nUnsub, nSubOk>>

\* the callback call without the inner try/except: a raising callback ends
\* the dispatch of the message
DeliverCallNoCatch(w) ==
    /\ wst[w].pc = "call"
    /\ log' = [log EXCEPT ![wst[w].cb] = Append(@, LogEntry(wst[w].msg, "dispatch"))]
    /\ IF wst[w].cb \in RaisingCallbacks
       THEN DispatchEnds(w, FALSE)
       ELSE /\ wst' = [wst EXCEPT ![w].pc = "cbnext", ![w].cb = ""]
            /\ UNCHANGED completed
    /\ UNCHANGED <<notEmb, running, subscribers, lists, retained_messages, message_queue,
                   tst, pubs, regVer, nSub, nUnsub, nSubOk>>

\* _deliver_message: `try: callback(message.topic, message.payload)
\* except Exception: print(...)`: the loop goes on whether or not it raised
DeliverCall(w) ==
    /\ wst[w].pc = "call"
    /\ log' = [log EXCEPT ![wst[w].cb] = Append(@, LogEntry(wst[w].msg, "dispatch"))]
    /\ wst' = [wst EXCEPT ![w].pc = "cbnext", ![w].cb = ""]
    /\ UNCHANGED <<notEmb, running, subscribers, lists, retained_messages, message_queue,
                   tst, pubs, regVer, completed, nSub, nUnsub, nSubOk>>

-----------------------------------------------------------------------------
(* EmbeddedMQTTBroker: subscribe and unsubscribe, statement by statement *)

\* a call ends by an exception that leaves subscribe / unsubscribe.  A thread
\* back at "idle" keeps the record of its last call (op, filter, cb, err and
\* the history fields) until it begins the next one.
Raise(t) == tst' = [tst EXCEPT ![t].pc = "idle", ![t].err = TRUE, ![t].lid = 0,
                                  ![t].size = 0, ![t].pos = 0]

\* subscribe(topic, callback): `if topic not in self.subscribers`
SubscribeBegin(t, f, cb) ==
    /\ tst[t].pc = "idle"
    /\ OpsBegun < MaxOps
    /\ tst' = [tst EXCEPT ![t] =
                 [TIdle EXCEPT !.pc = IF HasKey(subscribers, f) THEN "sub_get" ELSE "sub_set",
                               !.op = "sub", !.filter = f, !.cb = cb,
                               !.startLog = Len(log[cb]),
                               !.pubStart = Len(pubs),
                               !.subBefore = nSub]]
    /\ nSub' = nSub + 1
    /\ UNCHANGED <<notEmb, running, subscribers, lists, retained_messages, message_queue,
                   wst, log, pubs, regVer, completed, nUnsub, nSubOk>>

\* subscribe: `self.subscribers[topic] = []` (a new list object; a key that
\* another thread has inserted meanwhile gets its value replaced)
SubscribeSet(t) ==
    /\ tst[t].pc = "sub_set"
    /\ lists' = Append(lists, <<>>)
    /\ LET i == LiveIdx(subscribers, tst[t].filter)
       IN  subscribers' =
             IF i = 0
             THEN Append(subscribers, [key |-> tst[t].filter, lid |-> Len(lists) + 1,
                                       live |-> TRUE])
             ELSE [subscribers EXCEPT ![i].lid = Len(lists) + 1]
    /\ regVer' = regVer + 1
    /\ tst' = [tst EXCEPT ![t].pc = "sub_get"]
    /\ UNCHANGED <<notEmb, running, retained_messages, message_queue, wst, log, pubs,
                   completed, nSub, nUnsub, nSubOk>>

\* subscribe: `self.subscribers[topic]` of line 101 (KeyError when the key
\* has been deleted meanwhile)
SubscribeGet(t) ==
    /\ tst[t].pc = "sub_get"
    /\ LET i == LiveIdx(subscribers, tst[t].filter)
       IN  IF i = 0 THEN Raise(t)
           ELSE tst' = [tst EXCEPT ![t].pc = "sub_append", ![t].lid = subscribers[i].lid]
    /\ UNCHANGED <<notEmb, running, subscribers, lists, retained_messages, message_queue,
                   wst, log, pubs, regVer, completed, nSub, nUnsub, nSubOk>>

\* a subscribe that registers the callback twice
SubscribeAppendTwice(t) ==
    /\ tst[t].pc = "sub_append"
    /\ lists' = [lists EXCEPT ![tst[t].lid] = @ \o <<tst[t].cb, tst[t].cb>>]
    /\ regVer' = regVer + 1
    /\ tst' = [tst EXCEPT ![t].pc = "sub_next", ![t].lid = 0,
                          ![t].size = Len(retained_messages), ![t].pos = 0]
    /\ UNCHANGED <<notEmb, running, subscribers, retained_messages, message_queue, wst,
                   log, pubs, completed, nSub, nUnsub, nSubOk>>

\* subscribe: `.append(callback)` on the list just looked up, then the
\* `self.retained_messages.items()` iterator is created and records the
\* store's size.  (One step: the append writes only the list and the iterator
\* reads only the retained store, which the dispatch thread alone writes, so
\* any step of another thread between the two commutes with one of them.)
SubscribeAppend(t) ==
    /\ tst[t].pc = "sub_append"
    /\ lists' = [lists EXCEPT ![tst[t].lid] = Append(@, tst[t].cb)]
    /\ regVer' = regVer + 1
    /\ tst' = [tst EXCEPT ![t].pc = "sub_next", ![t].lid = 0,
                          ![t].size = Len(retained_messages), ![t].pos = 0]
    /\ UNCHANGED <<notEmb, running, subscribers, retained_messages, message_queue, wst,
                   log, pubs, completed, nSub, nUnsub, nSubOk>>

\* subscribe: the retained iterator's next() (RuntimeError when the dispatch
\* thread has stored a new topic meanwhile), then `_topic_matches`
SubscribeNext(t) ==
    /\ tst[t].pc = "sub_next"
    /\ IF Len(retained_messages) # tst[t].size
       THEN Raise(t)
       ELSE IF tst[t].pos >= Len(retained_messages)
       THEN tst' = [tst EXCEPT ![t].pc = "idle", ![t].size = 0, ![t].pos = 0]
       ELSE LET e == retained_messages[tst[t].pos + 1]
            IN  tst' = [tst EXCEPT
                   ![t].pos = tst[t].pos + 1,
                   ![t].item = IF _topic_matches(e.key, tst[t].filter) THEN e ELSE NoItem,
                   ![t].pc = IF _topic_matches(e.key, tst[t].filter)
                             THEN "sub_call" ELSE "sub_next"]
    /\ nSubOk' = IF Len(retained_messages) = tst[t].size
                    /\ tst[t].pos >= Len(retained_messages)
                 THEN nSubOk + 1 ELSE nSubOk
    /\ UNCHANGED <<notEmb, running, subscribers, lists, retained_messages, message_queue,
                   wst, log, pubs, regVer, completed, nSub, nUnsub>>

\* subscribe: `callback(retained_topic, retained_payload)`, not guarded: an
\* exception of the callback leaves subscribe
SubscribeCall(t) ==
    /\ tst[t].pc = "sub_call"
    /\ log' = [log EXCEPT ![tst[t].cb] =
                 Append(@, [topic |-> tst[t].item.key, payload |-> tst[t].item.payload,
                            id |-> tst[t].item.id, via |-> t])]
    /\ tst' = IF tst[t].cb \in RaisingCallbacks
              THEN [tst EXCEPT ![t].item = NoItem, ![t].pc = "idle", ![t].err = TRUE,
                               ![t].size = 0, ![t].pos = 0]
              ELSE [tst EXCEPT ![t].item = NoItem, ![t].pc = "sub_next"]
    /\ UNCHANGED <<notEmb, running, subscribers, lists, retained_messages, message_queue,
                   wst, pubs, regVer, completed, nSub, nUnsub, nSubOk>>

\* unsubscribe(topic, callback): `if topic in self.subscribers`
UnsubscribeBegin(t, f, cb) ==
    /\ tst[t].pc = "idle"
    /\ OpsBegun < MaxOps
    /\ tst' = [tst EXCEPT ![t] =
                 [TIdle EXCEPT !.pc = IF HasKey(subscribers, f) THEN "un_get" ELSE "idle",
                               !.op = "unsub", !.filter = f, !.cb = cb]]
    /\ nUnsub' = nUnsub + 1
    /\ UNCHANGED <<notEmb, running, subscribers, lists, retained_messages, message_queue,
                   wst, log, pubs, regVer, completed, nSub, nSubOk>>

\* unsubscribe: `self.subscribers[topic]` of line 112
UnsubscribeGet(t) ==
    /\ tst[t].pc = "un_get"
    /\ LET i == LiveIdx(subscribers, tst[t].filter)
       IN  IF i = 0 THEN Raise(t)
           ELSE tst' = [tst EXCEPT ![t].pc = "un_remove", ![t].lid = subscribers[i].lid]
    /\ UNCHANGED <<notEmb, running, subscribers, lists, retained_messages, message_queue,
                   wst, log, pubs, regVer, completed, nSub, nUnsub, nSubOk>>

\* unsubscribe: `.remove(callback)`; ValueError is caught and passed
UnsubscribeRemove(t) ==
    /\ tst[t].pc = "un_remove"
    /\ IF ListHas(lists[tst[t].lid], tst[t].cb)
       THEN /\ lists' = [lists EXCEPT ![tst[t].lid] = ListRemove(@, tst[t].cb)]
            /\ regVer' = regVer + 1
            /\ tst' = [tst EXCEPT ![t].pc = "un_check", ![t].lid = 0]
       ELSE /\ tst' = [tst EXCEPT ![t].pc = "idle", ![t].lid = 0]
            /\ UNCHANGED <<lists, regVer>>
    /\ UNCHANGED <<notEmb, running, subscribers, retained_messages, message_queue, wst,
                   log, pubs, completed, nSub, nUnsub, nSubOk>>

\* unsubscribe: `if not self.subscribers[topic]` (KeyError is not a
\* ValueError: it leaves unsubscribe)
UnsubscribeCheck(t) ==
    /\ tst[t].pc = "un_check"
    /\ LET i == LiveIdx(subscribers, tst[t].filter)
       IN  IF i = 0 THEN Raise(t)
           ELSE tst' = [tst EXCEPT ![t].pc = IF lists[subscribers[i].lid] = <<>>
                                             THEN "un_del" ELSE "idle"]
    /\ UNCHANGED <<notEmb, running, subscribers, lists, retained_messages, message_queue,
                   wst, log, pubs, regVer, completed, nSub, nUnsub, nSubOk>>

\* unsubscribe: `del self.subscribers[topic]`
UnsubscribeDel(t) ==
    /\ tst[t].pc = "un_del"
    /\ LET i == LiveIdx(subscribers, tst[t].filter)
       IN  IF i = 0
           THEN Raise(t) /\ UNCHANGED <<subscribers, regVer>>
           ELSE /\ subscribers' = [subscribers EXCEPT ![i].live = FALSE]
                /\ regVer' = regVer + 1
                /\ tst' = [tst EXCEPT ![t].pc = "idle"]
    /\ UNCHANGED <<notEmb, running, lists, retained_messages, message_queue, wst, log,
                   pubs, completed, nSub, nUnsub, nSubOk>>

-----------------------------------------------------------------------------
(* SimpleTCPMQTTBroker: bytes, frames and the parsers *)

\* the largest value struct.pack takes for a 'B' field
MaxByte == 255

\* the socket objects accept() returns, in the order it returns them
SocketOrder == <<"s1", "s2">>
Sockets == {SocketOrder[i] : i \in 1..Len(SocketOrder)}
\* topics a client publishes to, filters it subscribes to, payloads (bytes)
TPubTopics == {<<"a">>}
TSubTopics == {<<"a">>, <<"#">>}
\* a payload one byte too long for the length byte of a frame synthesized
\* for a one-byte topic
LongPayload == [i \in 1..(MaxByte - 2) |-> 88]
TPayloads == {<<88>>, <<>>, LongPayload}
\* arguments of the broker's own publish(topic, payload)
SrvTopics == {<<"a">>}
SrvPayloads == {<<"X">>}

\* str.encode('utf-8') / bytes.decode('utf-8') on the characters in use; a
\* byte of 128 or more does not start a valid sequence here
ByteOf == [c \in {"#", "/", "X", "a"} |->
             CASE c = "#" -> 35 [] c = "/" -> 47 [] c = "X" -> 88 [] c = "a" -> 97]
CharOf(b) == CHOOSE c \in DOMAIN ByteOf : ByteOf[c] = b
Encode(s) == [i \in 1..Len(s) |-> ByteOf[s[i]]]
Decodable(bs) == \A i \in 1..Len(bs) : \E c \in DOMAIN ByteOf : ByteOf[c] = bs[i]
Decode(bs) == [i \in 1..Len(bs) |-> CharOf(bs[i])]

\* Python slice data[lo:hi] (0-based, hi exclusive, clipped to the data)
Slice(data, lo, hi) ==
    LET h == IF hi > Len(data) THEN Len(data) ELSE hi
    IN  IF lo >= h THEN <<>> ELSE SubSeq(data, lo + 1, h)

\* struct.unpack('>H', b)[0] of a two-byte slice
U16(b) == 256 * b[1] + b[2]

\* a client's PUBLISH frame: control byte, length byte (the low eight bits
\* of the length; the broker does not read it), topic length, topic, payload
MkPublish(topic, payload) ==
    <<48, (2 + Len(topic) + Len(payload)) % 256, Len(topic) \div 256, Len(topic) % 256>>
        \o Encode(topic) \o payload

\* a client's SUBSCRIBE frame: control byte, length byte, packet id, topic
\* length, topic, requested QoS
MkSubscribe(pid, topic) ==
    <<130, 5 + Len(topic), pid \div 256, pid % 256, Len(topic) \div 256, Len(topic) % 256>>
        \o Encode(topic) \o <<0>>

\* the same frame without the requested-QoS byte: the body ends with the
\* topic
MkSubscribeNoQos(pid, topic) ==
    <<130, 4 + Len(topic), pid \div 256, pid % 256, Len(topic) \div 256, Len(topic) % 256>>
        \o Encode(topic)

\* frames that do not decode: a publish whose topic is not UTF-8, a publish
\* whose topic length exceeds the data, a subscribe cut inside its body
BAD_UTF8_FRAME == <<48, 4, 0, 1, 255, 88>>
OVERLONG_FRAME == <<48, 3, 0, 9, 97>>
TRUNCATED_FRAME == <<130, 3, 0, 1, 0>>

CONNECT_FRAME == <<16, 0>>
PINGREQ_FRAME == <<192, 0>>
DISCONNECT_FRAME == <<224, 0>>
CONNACK == <<32, 2, 0, 0>>
PINGRESP == <<208, 0>>

\* what one recv(1024) may return from a client
ClientFrames ==
    {MkPublish(t, p) : t \in TPubTopics, p \in TPayloads}
        \cup {MkSubscribe(1, t) : t \in TSubTopics}
        \cup {MkSubscribeNoQos(1, t) : t \in TPubTopics}
        \cup {BAD_UTF8_FRAME, OVERLONG_FRAME, TRUNCATED_FRAME}
        \cup {CONNECT_FRAME, PINGREQ_FRAME, DISCONNECT_FRAME}

\* _process_mqtt_packet: `packet_type = (data[0] >> 4) & 0x0F`
PacketType(data) == (data[1] \div 16) % 16

\* _handle_publish, lines 133-137: the topic and payload of a frame, or
\* nothing: "skip" when a length test fails, "error" when a decode raises
ParsePublish(data) ==
    IF Len(data) > 4
    THEN LET topic_length == U16(Slice(data, 2, 4))
         IN  IF Len(data) > 4 + topic_length
             THEN IF /\ Decodable(Slice(data, 4, 4 + topic_length))
                     /\ Decodable(Slice(data, 4 + topic_length, Len(data)))
                  THEN [kind |-> "ok",
                        topic |-> Decode(Slice(data, 4, 4 + topic_length)),
                        payload |-> Slice(data, 4 + topic_length, Len(data))]
                  ELSE [kind |-> "error", topic |-> <<>>, payload |-> <<>>]
             ELSE [kind |-> "skip", topic |-> <<>>, payload |-> <<>>]
    ELSE [kind |-> "skip", topic |-> <<>>, payload |-> <<>>]

\* _handle_subscribe, lines 162-165 and 176
ParseSubscribe(data) ==
    IF Len(data) > 6
    THEN LET topic_length == U16(Slice(data, 4, 6))
         IN  IF Len(data) > 6 + topic_length
             THEN IF Decodable(Slice(data, 6, 6 + topic_length))
                  THEN [kind |-> "ok",
                        topic |-> Decode(Slice(data, 6, 6 + topic_length)),
                        packet_id |-> U16(Slice(data, 2, 4))]
                  ELSE [kind |-> "error", topic |-> <<>>, packet_id |-> 0]
             ELSE [kind |-> "skip", topic |-> <<>>, packet_id |-> 0]
    ELSE [kind |-> "skip", topic |-> <<>>, packet_id |-> 0]

\* struct.pack('>BBHB', 0x90, 0x03, packet_id, 0x00)
Suback(packet_id) == <<144, 3, packet_id \div 256, packet_id % 256, 0>>

\* _handle_subscribe, lines 183-186: the PUBLISH synthesized for a retained
\* payload; struct.pack raises when the length does not fit its byte
RetainedPublishFits(topic, payload) ==
    2 + Len(Encode(topic)) + Len(payload) <= MaxByte
RetainedPublish(topic, payload) ==
    <<48, 2 + Len(Encode(topic)) + Len(payload),
      Len(Encode(topic)) \div 256, Len(Encode(topic)) % 256>>
        \o Encode(topic) \o payload

-----------------------------------------------------------------------------
(* SimpleTCPMQTTBroker: state *)

NoSock == "none"

\* a handler thread's frame: position, the data being processed and the
\* iterators it holds
HNone == [pc |-> "none", data |-> <<>>, rid |-> 0, topic |-> <<>>, lid |-> 0,
          idx |-> 0, target |-> NoSock, size |-> 0, pos |-> 0, site |-> "none"]

\* dict helpers on self.subscriptions (keys are never deleted)
TcpHasKey(k) == \E i \in 1..Len(tcp_subscriptions) : tcp_subscriptions[i].key = k
TcpKeyIdx(k) == CHOOSE i \in 1..Len(tcp_subscriptions) : tcp_subscriptions[i].key = k
TcpList(k) == tcp_lists[tcp_subscriptions[TcpKeyIdx(k)].lid]
InList(s, l) == \E i \in 1..Len(l) : l[i] = s
\* list.remove: the first occurrence goes
TcpListRemove(l, s) ==
    LET i == CHOOSE j \in 1..Len(l) : l[j] = s /\ \A k \in 1..(j - 1) : l[k] # s
    IN  SubSeq(l, 1, i - 1) \o SubSeq(l, i + 1, Len(l))

\* sessions other than `s` that are live and registered under a filter that
\* matches `topic` (history, taken when a publish frame is received)
MatchingSessions(s, topic) ==
    {a \in (DOMAIN tcp_clients) \ {s} :
        \E i \in 1..Len(tcp_subscriptions) :
            /\ InList(a, tcp_lists[tcp_subscriptions[i].lid])
            /\ _topic_matches(topic, tcp_subscriptions[i].key)}

\* socket.send on the server side of a connection: the bytes reach the
\* peer's stream unless the socket object has been closed (OSError then)
Sent(s, entry) ==
    IF sock[s] = "open" THEN [outbox EXCEPT ![s] = Append(@, entry)] ELSE outbox

\* the caller of publish(topic, payload): outside a call (with the last
\* call's arguments and return value) or at a position of the call
SrvIdle == [pc |-> "idle", calls |-> 0, topic |-> <<>>, payload |-> <<>>,
            packet |-> <<>>, lid |-> 0, idx |-> 0, target |-> NoSock,
            result |-> FALSE]

TcpInit ==
    /\ tcp_running = FALSE
    /\ tcp_clients = [x \in {} |-> 0]
    /\ tcp_subscriptions = <<>>
    /\ tcp_lists = <<>>
    /\ tcp_retained = [x \in {} |-> 0]
    /\ sock = [s \in Sockets |-> "none"]
    /\ outbox = [s \in Sockets |-> <<>>]
    /\ hst = [s \in Sockets |-> HNone]
    /\ nFrames = 0
    /\ rcvd = <<>>
    /\ handled = {}
    /\ srv = SrvIdle
    /\ tcp_stopped = FALSE

-----------------------------------------------------------------------------
(* SimpleTCPMQTTBroker: actions *)

\* start(): the listening socket is bound and the accept thread started
TcpStart ==
    /\ ~tcp_running
    /\ ~tcp_stopped
    /\ tcp_running' = TRUE
    /\ UNCHANGED <<notTcp, tcp_clients, tcp_subscriptions, tcp_lists,
                   tcp_retained, sock, outbox, hst, nFrames, rcvd, handled,
                   srv, tcp_stopped>>

\* stop(): the flag is cleared and the listening socket closed; the sockets
\* of the connections are left alone. stop_tcp_mqtt_broker drops the
\* instance, so a stopped broker is not started again
TcpStop ==
    /\ tcp_running
    /\ tcp_running' = FALSE
    /\ tcp_stopped' = TRUE
    /\ UNCHANGED <<notTcp, tcp_clients, tcp_subscriptions, tcp_lists,
                   tcp_retained, sock, outbox, hst, nFrames, rcvd, handled,
                   srv>>

\* accept() returns a new socket object: the next one not yet handed out
FreshSocket(s) ==
    \E i \in 1..Len(SocketOrder) :
        /\ SocketOrder[i] = s
        /\ hst[s].pc = "none"
        /\ \A j \in 1..(i - 1) : hst[SocketOrder[j]].pc # "none"

\* _run_server: one accepted connection
Accept(s) ==
    /\ tcp_running
    /\ FreshSocket(s)
    /\ tcp_clients' = [x \in (DOMAIN tcp_clients) \cup {s} |->
                          IF x = s
                          THEN [client_id |-> Cardinality(DOMAIN tcp_clients)]
                          ELSE tcp_clients[x]]
    /\ sock' = [sock EXCEPT ![s] = "open"]
    /\ hst' = [hst EXCEPT ![s].pc = "loop"]
    /\ UNCHANGED <<notTcp, tcp_running, tcp_subscriptions, tcp_lists,
                   tcp_retained, outbox, nFrames, rcvd, handled, srv,
                   tcp_stopped>>

\* _handle_client: the loop test
HandleClientLoop(s) ==
    /\ hst[s].pc = "loop"
    /\ IF tcp_running /\ s \in DOMAIN tcp_clients
       THEN hst' = [hst EXCEPT ![s] = [HNone EXCEPT !.pc = "recv"]]
       ELSE hst' = [hst EXCEPT ![s] = [HNone EXCEPT !.pc = "disc_del", !.site = "finally"]]
    /\ UNCHANGED <<notTcp, tcp_running, tcp_clients, tcp_subscriptions,
                   tcp_lists, tcp_retained, sock, outbox, nFrames, rcvd,
                   handled, srv, tcp_stopped>>

\* _handle_client: recv returns b'' (the peer closed), the loop breaks
HandleClientEof(s) ==
    /\ hst[s].pc = "recv"
    /\ hst' = [hst EXCEPT ![s].pc = "disc_del", ![s].site = "finally"]
    /\ UNCHANGED <<notTcp, tcp_running, tcp_clients, tcp_subscriptions,
                   tcp_lists, tcp_retained, sock, outbox, nFrames, rcvd,
                   handled, srv, tcp_stopped>>

\* recv returns a CONNECT frame: _handle_connect answers CONNACK
HandleConnect(s) ==
    /\ hst[s].pc = "recv"
    /\ nFrames < MaxFrames
    /\ CONNECT_FRAME \in ClientFrames
    /\ PacketType(CONNECT_FRAME) = 1
    /\ nFrames' = nFrames + 1
    /\ outbox' = Sent(s, [bytes |-> CONNACK, rid |-> 0])
    /\ hst' = [hst EXCEPT ![s].pc = "loop"]
    /\ UNCHANGED <<notTcp, tcp_running, tcp_clients, tcp_subscriptions,
                   tcp_lists, tcp_retained, sock, rcvd, handled, srv,
                   tcp_stopped>>

\* recv returns a PINGREQ frame: _handle_pingreq answers PINGRESP
HandlePingreq(s) ==
    /\ hst[s].pc = "recv"
    /\ nFrames < MaxFrames
    /\ PINGREQ_FRAME \in ClientFrames
    /\ PacketType(PINGREQ_FRAME) = 12
    /\ nFrames' = nFrames + 1
    /\ outbox' = Sent(s, [bytes |-> PINGRESP, rid |-> 0])
    /\ hst' = [hst EXCEPT ![s].pc = "loop"]
    /\ UNCHANGED <<notTcp, tcp_running, tcp_clients, tcp_subscriptions,
                   tcp_lists, tcp_retained, sock, rcvd, handled, srv,
                   tcp_stopped>>

\* recv returns a PUBLISH frame: _handle_publish up to and including the
\* retained store (parsing is local to the thread)
HandlePublishRecv(s, data) ==
    /\ hst[s].pc = "recv"
    /\ nFrames < MaxFrames
    /\ PacketType(data) = 3
    /\ nFrames' = nFrames + 1
    /\ LET p == ParsePublish(data)
       IN  IF p.kind = "ok"
           THEN /\ tcp_retained' =
                       [t \in (DOMAIN tcp_retained) \cup {p.topic} |->
                           IF t = p.topic THEN p.payload ELSE tcp_retained[t]]
                /\ rcvd' = Append(rcvd, [sock |-> s, data |-> data,
                                         expect |-> MatchingSessions(s, p.topic),
                                         subscribed |-> /\ TcpHasKey(p.topic)
                                                        /\ InList(s, TcpList(p.topic))])
                /\ hst' = [hst EXCEPT ![s].pc = "pub_chk", ![s].data = data,
                                      ![s].rid = Len(rcvd) + 1,
                                      ![s].topic = p.topic]
           ELSE /\ hst' = [hst EXCEPT ![s].pc = "loop", ![s].data = data]
                /\ UNCHANGED <<tcp_retained, rcvd>>
    /\ UNCHANGED <<notTcp, tcp_running, tcp_clients, tcp_subscriptions,
                   tcp_lists, sock, outbox, handled, srv, tcp_stopped>>

\* `if topic in self.subscriptions: for subscriber in self.subscriptions[topic]`
HandlePublishCheck(s) ==
    /\ hst[s].pc = "pub_chk"
    /\ IF TcpHasKey(hst[s].topic)
       THEN /\ hst' = [hst EXCEPT ![s].pc = "pub_next",
                                  ![s].lid = tcp_subscriptions[TcpKeyIdx(hst[s].topic)].lid,
                                  ![s].idx = 0]
            /\ UNCHANGED handled
       ELSE /\ hst' = [hst EXCEPT ![s].pc = "loop"]
            /\ handled' = handled \cup {hst[s].rid}
    /\ UNCHANGED <<notTcp, tcp_running, tcp_clients, tcp_subscriptions,
                   tcp_lists, tcp_retained, sock, outbox, nFrames, rcvd, srv,
                   tcp_stopped>>

\* the list iterator's next
HandlePublishNext(s) ==
    /\ hst[s].pc = "pub_next"
    /\ IF hst[s].idx < Len(tcp_lists[hst[s].lid])
       THEN /\ hst' = [hst EXCEPT ![s].pc = "pub_target",
                                  ![s].target = tcp_lists[hst[s].lid][hst[s].idx + 1],
                                  ![s].idx = @ + 1]
            /\ UNCHANGED handled
       ELSE /\ hst' = [hst EXCEPT ![s].pc = "loop"]
            /\ handled' = handled \cup {hst[s].rid}
    /\ UNCHANGED <<notTcp, tcp_running, tcp_clients, tcp_subscriptions,
                   tcp_lists, tcp_retained, sock, outbox, nFrames, rcvd, srv,
                   tcp_stopped>>

\* a forwarding test that lets the sender through
ForwardToAll(subscriber, client_socket) ==
    subscriber \in DOMAIN tcp_clients

\* `subscriber != client_socket and subscriber in self.clients`
ForwardTo(subscriber, client_socket) ==
    subscriber # client_socket /\ subscriber \in DOMAIN tcp_clients

HandlePublishTarget(s) ==
    /\ hst[s].pc = "pub_target"
    /\ IF ForwardTo(hst[s].target, s)
       THEN hst' = [hst EXCEPT ![s].pc = "pub_send"]
       ELSE hst' = [hst EXCEPT ![s].pc = "pub_next"]
    /\ UNCHANGED <<notTcp, tcp_running, tcp_clients, tcp_subscriptions,
                   tcp_lists, tcp_retained, sock, outbox, nFrames, rcvd,
                   handled, srv, tcp_stopped>>

\* `subscriber.send(data)`; an exception is passed over
HandlePublishSend(s) ==
    /\ hst[s].pc = "pub_send"
    /\ outbox' = Sent(hst[s].target, [bytes |-> hst[s].data, rid |-> hst[s].rid])
    /\ hst' = [hst EXCEPT ![s].pc = "pub_next"]
    /\ UNCHANGED <<notTcp, tcp_running, tcp_clients, tcp_subscriptions,
                   tcp_lists, tcp_retained, sock, nFrames, rcvd, handled, srv,
                   tcp_stopped>>

\* recv returns a SUBSCRIBE frame: _handle_subscribe up to and including
\* `if topic not in self.subscriptions`
HandleSubscribeRecv(s, data) ==
    /\ hst[s].pc = "recv"
    /\ nFrames < MaxFrames
    /\ PacketType(data) = 8
    /\ nFrames' = nFrames + 1
    /\ LET p == ParseSubscribe(data)
       IN  IF p.kind = "ok"
           THEN hst' = [hst EXCEPT ![s].pc = IF TcpHasKey(p.topic) THEN "sub_in" ELSE "sub_set",
                                   ![s].data = data, ![s].topic = p.topic]
           ELSE hst' = [hst EXCEPT ![s].pc = "loop", ![s].data = data]
    /\ UNCHANGED <<notTcp, tcp_running, tcp_clients, tcp_subscriptions,
                   tcp_lists, tcp_retained, sock, outbox, rcvd, handled, srv,
                   tcp_stopped>>

\* `self.subscriptions[topic] = []`: a new list object; a key another
\* thread has set meanwhile gets the new list as its value
HandleSubscribeSet(s) ==
    /\ hst[s].pc = "sub_set"
    /\ tcp_lists' = Append(tcp_lists, <<>>)
    /\ tcp_subscriptions' =
           IF TcpHasKey(hst[s].topic)
           THEN [tcp_subscriptions EXCEPT ![TcpKeyIdx(hst[s].topic)].lid = Len(tcp_lists) + 1]
           ELSE Append(tcp_subscriptions, [key |-> hst[s].topic, lid |-> Len(tcp_lists) + 1])
    /\ hst' = [hst EXCEPT ![s].pc = "sub_in"]
    /\ UNCHANGED <<notTcp, tcp_running, tcp_clients, tcp_retained, sock,
                   outbox, nFrames, rcvd, handled, srv, tcp_stopped>>

\* `if client_socket not in self.subscriptions[topic]`
HandleSubscribeIn(s) ==
    /\ hst[s].pc = "sub_in"
    /\ hst' = [hst EXCEPT ![s].pc = IF InList(s, TcpList(hst[s].topic))
                                    THEN "sub_ack" ELSE "sub_app"]
    /\ UNCHANGED <<notTcp, tcp_running, tcp_clients, tcp_subscriptions,
                   tcp_lists, tcp_retained, sock, outbox, nFrames, rcvd,
                   handled, srv, tcp_stopped>>

\* `self.subscriptions[topic].append(client_socket)`
HandleSubscribeAppend(s) ==
    /\ hst[s].pc = "sub_app"
    /\ tcp_lists' = [tcp_lists EXCEPT ![tcp_subscriptions[TcpKeyIdx(hst[s].topic)].lid] =
                                          Append(@, s)]
    /\ hst' = [hst EXCEPT ![s].pc = "sub_ack"]
    /\ UNCHANGED <<notTcp, tcp_running, tcp_clients, tcp_subscriptions,
                   tcp_retained, sock, outbox, nFrames, rcvd, handled, srv,
                   tcp_stopped>>

\* the SUBACK
HandleSubscribeAck(s) ==
    /\ hst[s].pc = "sub_ack"
    /\ outbox' = Sent(s, [bytes |-> Suback(ParseSubscribe(hst[s].data).packet_id),
                          rid |-> 0])
    /\ hst' = [hst EXCEPT ![s].pc = "sub_ret"]
    /\ UNCHANGED <<notTcp, tcp_running, tcp_clients, tcp_subscriptions,
                   tcp_lists, tcp_retained, sock, nFrames, rcvd, handled, srv,
                   tcp_stopped>>

\* `if topic in self.retained_messages`: the synthesized PUBLISH; a
\* struct.error is caught by the handler's except
HandleSubscribeRetained(s) ==
    /\ hst[s].pc = "sub_ret"
    /\ outbox' =
           IF /\ hst[s].topic \in DOMAIN tcp_retained
              /\ RetainedPublishFits(hst[s].topic, tcp_retained[hst[s].topic])
           THEN Sent(s, [bytes |-> RetainedPublish(hst[s].topic, tcp_retained[hst[s].topic]),
                         rid |-> 0])
           ELSE outbox
    /\ hst' = [hst EXCEPT ![s].pc = "loop"]
    /\ UNCHANGED <<notTcp, tcp_running, tcp_clients, tcp_subscriptions,
                   tcp_lists, tcp_retained, sock, nFrames, rcvd, handled, srv,
                   tcp_stopped>>

\* recv returns a DISCONNECT frame: _process_mqtt_packet calls
\* _disconnect_client
DisconnectRecv(s) ==
    /\ hst[s].pc = "recv"
    /\ nFrames < MaxFrames
    /\ DISCONNECT_FRAME \in ClientFrames
    /\ PacketType(DISCONNECT_FRAME) = 14
    /\ nFrames' = nFrames + 1
    /\ hst' = [hst EXCEPT ![s].pc = "disc_del", ![s].site = "packet"]
    /\ UNCHANGED <<notTcp, tcp_running, tcp_clients, tcp_subscriptions,
                   tcp_lists, tcp_retained, sock, outbox, rcvd, handled, srv,
                   tcp_stopped>>

\* _disconnect_client: `if client_socket in self.clients: del ...` and the
\* iterator of `for topic in self.subscriptions`
DisconnectDel(s) ==
    /\ hst[s].pc = "disc_del"
    /\ IF s \in DOMAIN tcp_clients
       THEN /\ tcp_clients' = [x \in (DOMAIN tcp_clients) \ {s} |-> tcp_clients[x]]
            /\ hst' = [hst EXCEPT ![s].pc = "disc_iter",
                                  ![s].size = Len(tcp_subscriptions), ![s].pos = 0]
       ELSE /\ hst' = [hst EXCEPT ![s].pc = "disc_close"]
            /\ UNCHANGED tcp_clients
    /\ UNCHANGED <<notTcp, tcp_running, tcp_subscriptions, tcp_lists,
                   tcp_retained, sock, outbox, nFrames, rcvd, handled, srv,
                   tcp_stopped>>

\* where an exception raised inside _disconnect_client goes: from the call
\* in _process_mqtt_packet to the except of _handle_client and then to its
\* finally (a second _disconnect_client); from the call in the finally out
\* of the thread, the socket left as it is
DisconnectRaised(h) ==
    IF h.site = "packet"
    THEN [h EXCEPT !.pc = "disc_del", !.site = "finally"]
    ELSE [HNone EXCEPT !.pc = "dead"]

\* the dict iterator's next (RuntimeError when the dict has changed size)
\* and `if client_socket in self.subscriptions[topic]`
DisconnectIter(s) ==
    /\ hst[s].pc = "disc_iter"
    /\ IF Len(tcp_subscriptions) # hst[s].size
       THEN hst' = [hst EXCEPT ![s] = DisconnectRaised(@)]
       ELSE IF hst[s].pos >= Len(tcp_subscriptions)
            THEN hst' = [hst EXCEPT ![s].pc = "disc_close"]
            ELSE LET e == tcp_subscriptions[hst[s].pos + 1]
                 IN  hst' = [hst EXCEPT ![s].pos = @ + 1, ![s].topic = e.key,
                                        ![s].pc = IF InList(s, tcp_lists[e.lid])
                                                  THEN "disc_rm" ELSE "disc_iter"]
    /\ UNCHANGED <<notTcp, tcp_running, tcp_clients, tcp_subscriptions,
                   tcp_lists, tcp_retained, sock, outbox, nFrames, rcvd,
                   handled, srv, tcp_stopped>>

\* `self.subscriptions[topic].remove(client_socket)` (ValueError when the
\* key's list no longer holds the socket)
DisconnectRemove(s) ==
    /\ hst[s].pc = "disc_rm"
    /\ LET lid == tcp_subscriptions[TcpKeyIdx(hst[s].topic)].lid
       IN  IF InList(s, tcp_lists[lid])
           THEN /\ tcp_lists' = [tcp_lists EXCEPT ![lid] = TcpListRemove(@, s)]
                /\ hst' = [hst EXCEPT ![s].pc = "disc_iter"]
           ELSE /\ hst' = [hst EXCEPT ![s] = DisconnectRaised(@)]
                /\ UNCHANGED tcp_lists
    /\ UNCHANGED <<notTcp, tcp_running, tcp_clients, tcp_subscriptions,
                   tcp_retained, sock, outbox, nFrames, rcvd, handled, srv,
                   tcp_stopped>>

\* `client_socket.close()`; the call made from _process_mqtt_packet returns
\* to the loop, the one made in the finally ends the thread
DisconnectClose(s) ==
    /\ hst[s].pc = "disc_close"
    /\ sock' = [sock EXCEPT ![s] = "closed"]
    /\ hst' = [hst EXCEPT ![s] = IF hst[s].site = "packet"
                                  THEN [@ EXCEPT !.pc = "loop"]
                                  ELSE [HNone EXCEPT !.pc = "dead"]]
    /\ UNCHANGED <<notTcp, tcp_running, tcp_clients, tcp_subscriptions,
                   tcp_lists, tcp_retained, outbox, nFrames, rcvd, handled,
                   srv, tcp_stopped>>

\* publish(topic, payload): `if topic in self.subscriptions`, the packet and
\* the retained store; struct.pack raises when the length does not fit its
\* byte and the except returns False
ServerPublish(topic, payload) ==
    /\ srv.pc = "idle"
    /\ nFrames < MaxFrames
    /\ nFrames' = nFrames + 1
    /\ LET call == [SrvIdle EXCEPT !.calls = srv.calls + 1, !.topic = topic,
                                   !.payload = payload]
       IN  IF TcpHasKey(topic) /\ RetainedPublishFits(topic, Encode(payload))
           THEN /\ tcp_retained' =
                       [t \in (DOMAIN tcp_retained) \cup {topic} |->
                           IF t = topic THEN Encode(payload) ELSE tcp_retained[t]]
                /\ srv' = [call EXCEPT !.pc = "next",
                                       !.packet = RetainedPublish(topic, Encode(payload)),
                                       !.lid = tcp_subscriptions[TcpKeyIdx(topic)].lid]
           ELSE /\ srv' = call
                /\ UNCHANGED tcp_retained
    /\ UNCHANGED <<notTcp, tcp_running, tcp_clients, tcp_subscriptions,
                   tcp_lists, sock, outbox, hst, rcvd, handled, tcp_stopped>>

\* `for subscriber in self.subscriptions[topic]`: the list iterator's next;
\* at its end publish returns True
ServerPublishNext ==
    /\ srv.pc = "next"
    /\ IF srv.idx < Len(tcp_lists[srv.lid])
       THEN srv' = [srv EXCEPT !.pc = "target",
                               !.target = tcp_lists[srv.lid][srv.idx + 1],
                               !.idx = @ + 1]
       ELSE srv' = [srv EXCEPT !.pc = "idle", !.result = TRUE]
    /\ UNCHANGED <<notTcp, tcp_running, tcp_clients, tcp_subscriptions,
                   tcp_lists, tcp_retained, sock, outbox, hst, nFrames, rcvd,
                   handled, tcp_stopped>>

\* `if subscriber in self.clients`
ServerPublishTarget ==
    /\ srv.pc = "target"
    /\ srv' = [srv EXCEPT !.pc = IF srv.target \in DOMAIN tcp_clients
                                  THEN "send" ELSE "next"]
    /\ UNCHANGED <<notTcp, tcp_running, tcp_clients, tcp_subscriptions,
                   tcp_lists, tcp_retained, sock, outbox, hst, nFrames, rcvd,
                   handled, tcp_stopped>>

\* `subscriber.send(publish_packet)`; an exception is passed over
ServerPublishSend ==
    /\ srv.pc = "send"
    /\ outbox' = Sent(srv.target, [bytes |-> srv.packet, rid |-> 0])
    /\ srv' = [srv EXCEPT !.pc = "next"]
    /\ UNCHANGED <<notTcp, tcp_running, tcp_clients, tcp_subscriptions,
                   tcp_lists, tcp_retained, sock, hst, nFrames, rcvd, handled,
                   tcp_stopped>>

\* the steps the broker's threads take by themselves: no frame, end of
\* stream or call from outside is needed for them
BrokerStep ==
    \/ \E s \in Sockets :
          \/ HandleClientLoop(s)
          \/ HandlePublishCheck(s) \/ HandlePublishNext(s)
          \/ HandlePublishTarget(s) \/ HandlePublishSend(s)
          \/ HandleSubscribeSet(s) \/ HandleSubscribeIn(s)
          \/ HandleSubscribeAppend(s) \/ HandleSubscribeAck(s)
          \/ HandleSubscribeRetained(s)
          \/ DisconnectDel(s) \/ DisconnectIter(s)
          \/ DisconnectRemove(s) \/ DisconnectClose(s)
    \/ ServerPublishNext \/ ServerPublishTarget \/ ServerPublishSend

TcpNext ==
    \/ TcpStart
    \/ TcpStop
    \/ \E s \in Sockets : Accept(s)
    \/ \E s \in Sockets : HandleClientLoop(s)
    \/ \E s \in Sockets : HandleClientEof(s)
    \/ \E s \in Sockets : HandleConnect(s)
    \/ \E s \in Sockets : HandlePingreq(s)
    \/ \E s \in Sockets, data \in ClientFrames : HandlePublishRecv(s, data)
    \/ \E s \in Sockets : HandlePublishCheck(s)
    \/ \E s \in Sockets : HandlePublishNext(s)
    \/ \E s \in Sockets : HandlePublishTarget(s)
    \/ \E s \in Sockets : HandlePublishSend(s)
    \/ \E s \in Sockets, data \in ClientFrames : HandleSubscribeRecv(s, data)
    \/ \E s \in Sockets : HandleSubscribeSet(s)
    \/ \E s \in Sockets : HandleSubscribeIn(s)
    \/ \E s \in Sockets : HandleSubscribeAppend(s)
    \/ \E s \in Sockets : HandleSubscribeAck(s)
    \/ \E s \in Sockets : HandleSubscribeRetained(s)
    \/ \E s \in Sockets : DisconnectRecv(s)
    \/ \E s \in Sockets : DisconnectDel(s)
    \/ \E s \in Sockets : DisconnectIter(s)
    \/ \E s \in Sockets : DisconnectRemove(s)
    \/ \E s \in Sockets : DisconnectClose(s)
    \/ \E topic \in SrvTopics, payload \in SrvPayloads : ServerPublish(topic, payload)
    \/ ServerPublishNext
    \/ ServerPublishTarget
    \/ ServerPublishSend

-----------------------------------------------------------------------------
(* SpectrometerMQTTServer: state *)

\* self.topics
topics == [config_metal_grade |-> "spectrometer/config/metal_grade",
           config_incorrect_elements |-> "spectrometer/config/incorrect_elements",
           data_reading |-> "spectrometer/data/reading",
           data_temperature |-> "spectrometer/data/temperature",
           control_generate_reading |-> "spectrometer/control/generate_reading",
           status |-> "spectrometer/status"]

\* on_connect: the topics it subscribes to, in the order of the calls
ConnectSubscriptions == <<topics.config_metal_grade,
                          topics.config_incorrect_elements,
                          topics.control_generate_reading>>

\* start(): the backends in the order of the calls
BackendOrder == <<"tcp", "external", "embedded">>

\* the application thread outside start() / stop(); back at "idle" it keeps
\* the record of its last call (early: the call returned at its first test)
SIdle == [pc |-> "idle", op |-> "", success |-> FALSE, tried |-> <<>>,
          outcomes |-> <<>>, sub |-> 0, size |-> 0, result |-> FALSE,
          early |-> FALSE]

\* embedded_mqtt._embedded_broker before the first connect (None), and the
\* EmbeddedMQTTBroker it is bound to afterwards
NoEmbeddedBroker == [made |-> FALSE, message_queue |-> <<>>,
                     retained_messages |-> <<>>, subscribers |-> <<>>]

\* the dispatch thread outside _deliver_message
DIdle == [busy |-> FALSE, topic |-> "", payload |-> "", pos |-> 0, size |-> 0]

SupInit ==
    /\ sup_running = FALSE
    /\ client = 0
    /\ clients = <<>>
    /\ use_embedded = FALSE
    /\ _broker_instance = "None"
    /\ _embedded_broker = NoEmbeddedBroker
    /\ st = SIdle
    /\ sup_pubs = <<>>
    /\ nCalls = 0
    /\ metal_grade = "SG-Iron"
    /\ incorrect_elements_count = 2
    /\ temperature = "0.0"
    /\ latest_reading = ""
    /\ dispatch = DIdle
    /\ nInbound = 0
    /\ sup_log = <<>>

\* self.retained_messages[topic] = payload on the in-process broker's store
\* (a dict: a known key keeps its place, a new key goes last)
StoreRetained(tab, m) ==
    IF \E i \in DOMAIN tab : tab[i].topic = m.topic
    THEN [i \in DOMAIN tab |-> IF tab[i].topic = m.topic
                               THEN [topic |-> m.topic, payload |-> m.payload]
                               ELSE tab[i]]
    ELSE Append(tab, [topic |-> m.topic, payload |-> m.payload])

\* a message as the calls of publish pass it
Msg(topic, payload, retain) == [topic |-> topic, payload |-> payload, retain |-> retain]

\* client.publish(...) for each of msgs in turn, on client object c.
\* EmbeddedMQTTClient.publish: `if not self.connected: return`, else
\* `_embedded_broker.publish(topic, payload, retain)`, which puts the message
\* on the queue.  A paho client hands the message to its network loop.
\* With c = 0 (self.client is None) this is not reached.
RECURSIVE Stamp(_, _, _)
Stamp(msgs, c, connected) ==
    IF msgs = <<>> THEN <<>>
    ELSE <<[topic |-> Head(msgs).topic, payload |-> Head(msgs).payload,
            retain |-> Head(msgs).retain, client |-> c, connected |-> connected]>>
         \o Stamp(Tail(msgs), c, connected)

ClientPublish(c, msgs, broker) ==
    /\ sup_pubs' = sup_pubs \o Stamp(msgs, c, clients'[c].connected)
    /\ _embedded_broker' =
          IF clients'[c].kind = "embedded" /\ clients'[c].connected
          THEN [broker EXCEPT !.message_queue = @ \o msgs]
          ELSE broker

\* a publish_status that publishes the status twice
publish_status_twice(status, broker) ==
    IF client' # 0
    THEN ClientPublish(client', <<Msg(topics.status, status, TRUE),
                                  Msg(topics.status, status, TRUE)>>, broker)
    ELSE /\ sup_pubs' = sup_pubs
         /\ _embedded_broker' = broker

\* publish_status(status): `if self.client: self.client.publish(
\* self.topics['status'], status, retain=True)`
publish_status(status, broker) ==
    IF client' # 0
    THEN ClientPublish(client', <<Msg(topics.status, status, TRUE)>>, broker)
    ELSE /\ sup_pubs' = sup_pubs
         /\ _embedded_broker' = broker

-----------------------------------------------------------------------------
(* SpectrometerMQTTServer: configuration, on_message and generate_reading *)

\* what other parties publish: the topics (the three the server subscribes
\* to and one it does not) and the payloads
InTopics == {topics.config_metal_grade, topics.config_incorrect_elements,
             topics.control_generate_reading, topics.status}
InPayloads == {"Unobtainium", "3"}

\* the characters of a payload
Characters ==
    ("Unobtainium" :> <<"U", "n", "o", "b", "t", "a", "i", "n", "i", "u", "m">>)
    @@ ("3" :> <<"3">>)

\* the metal_grade_specs collection: the grades that have a composition
\* range, with the elements of the range
metal_grade_specs == [g \in {"SG-Iron"} |-> {"C", "Si", "Mn", "P"}]

\* int(payload): surrounding whitespace is stripped, a sign may lead, the
\* digits may be grouped by single underscores; anything else is a ValueError
DigitValue == [c \in {"0", "1", "2", "3", "4", "5", "6", "7", "8", "9"} |->
                 CASE c = "0" -> 0 [] c = "1" -> 1 [] c = "2" -> 2 [] c = "3" -> 3
                   [] c = "4" -> 4 [] c = "5" -> 5 [] c = "6" -> 6 [] c = "7" -> 7
                   [] c = "8" -> 8 [] c = "9" -> 9]
IsDigit(c) == c \in DOMAIN DigitValue
RECURSIVE LStrip(_)
LStrip(cs) == IF cs # <<>> /\ Head(cs) = " " THEN LStrip(Tail(cs)) ELSE cs
RECURSIVE RStrip(_)
RStrip(cs) == IF cs # <<>> /\ cs[Len(cs)] = " "
              THEN RStrip(SubSeq(cs, 1, Len(cs) - 1)) ELSE cs
RECURSIVE DigitsValue(_, _)
DigitsValue(ds, acc) ==
    IF ds = <<>> THEN acc
    ELSE IF Head(ds) = "_" THEN DigitsValue(Tail(ds), acc)
    ELSE DigitsValue(Tail(ds), 10 * acc + DigitValue[Head(ds)])
int(cs) ==
    LET body == RStrip(LStrip(cs))
        signed == body # <<>> /\ body[1] \in {"+", "-"}
        ds == IF signed THEN Tail(body) ELSE body
        wellFormed ==
            /\ ds # <<>>
            /\ IsDigit(ds[1])
            /\ IsDigit(ds[Len(ds)])
            /\ \A i \in 1..Len(ds) :
                  \/ IsDigit(ds[i])
                  \/ ds[i] = "_" /\ i < Len(ds) /\ ds[i + 1] # "_"
    IN  IF ~wellFormed THEN [ok |-> FALSE, value |-> 0]
        ELSE [ok |-> TRUE,
              value |-> IF signed /\ body[1] = "-" THEN 0 - DigitsValue(ds, 0)
                        ELSE DigitsValue(ds, 0)]

\* simulate_reading(grade, incorrect_elements_count) returns a reading:
\* get_metal_grade_spec finds the grade's range (else ValueError), and
\* random.sample can draw that many of its elements (else ValueError)
Simulates(grade, count) ==
    /\ grade \in DOMAIN metal_grade_specs
    /\ count >= 0
    /\ count <= Cardinality(metal_grade_specs[grade])

\* json.dumps(result): the reading, as far as the grade and the count
\* determine it
ReadingStr(grade, count) == "reading of " \o grade \o " with " \o ToString(count)

\* an entry of the call log
LogCall(kind, topic, payload, owner, live, ok) ==
    [kind |-> kind, topic |-> topic, payload |-> payload, owner |-> owner,
     live |-> live, grade |-> metal_grade, count |-> incorrect_elements_count,
     ok |-> ok]

\* a generate_reading that stores a reading before simulate_reading has
\* given one
generate_reading_store_first(broker, calls) ==
    LET ok == Simulates(metal_grade, incorrect_elements_count)
        reading_str == ReadingStr(metal_grade, incorrect_elements_count)
    IN  /\ sup_log' = Append(calls, LogCall("generate", "", "", 0, FALSE, ok))
        /\ latest_reading' = reading_str
        /\ temperature' = "0.0"
        /\ IF ok /\ client' # 0
           THEN ClientPublish(client', <<Msg(topics.data_reading, reading_str, TRUE),
                                         Msg(topics.data_temperature, "0.0", TRUE)>>,
                              broker)
           ELSE /\ sup_pubs' = sup_pubs
                /\ _embedded_broker' = broker

\* generate_reading: simulate_reading raises (the except returns None) or
\* gives the reading; then `self.latest_reading = reading_str`,
\* `self.temperature = result.get("temperature", 0.0)` (a reading has no
\* temperature entry), and the two retained publishes on self.client, which
\* raise AttributeError when self.client is None (the except returns None).
\* Runs as one step: calls is the call log it appends to.
generate_reading(broker, calls) ==
    LET ok == Simulates(metal_grade, incorrect_elements_count)
        reading_str == ReadingStr(metal_grade, incorrect_elements_count)
    IN  /\ sup_log' = Append(calls, LogCall("generate", "", "", 0, FALSE, ok))
        /\ IF ok
           THEN /\ latest_reading' = reading_str
                /\ temperature' = "0.0"
                /\ IF client' # 0
                   THEN ClientPublish(client', <<Msg(topics.data_reading, reading_str, TRUE),
                                                 Msg(topics.data_temperature, "0.0", TRUE)>>,
                                      broker)
                   ELSE /\ sup_pubs' = sup_pubs
                        /\ _embedded_broker' = broker
           ELSE /\ UNCHANGED <<latest_reading, temperature>>
                /\ sup_pubs' = sup_pubs
                /\ _embedded_broker' = broker

\* an on_message that takes a payload that is no integer as 0
on_message_default_zero(topic, payload, owner, broker) ==
    LET calls == Append(sup_log, LogCall("message", topic, payload, owner,
                                         clients[owner].connected, TRUE))
    IN  /\ UNCHANGED <<client, clients>>
        /\ IF topic = topics.config_metal_grade
           THEN /\ metal_grade' = payload
                /\ sup_log' = calls
                /\ UNCHANGED <<incorrect_elements_count, temperature, latest_reading,
                               sup_pubs>>
                /\ _embedded_broker' = broker
           ELSE IF topic = topics.config_incorrect_elements
           THEN /\ incorrect_elements_count' = int(Characters[payload]).value
                /\ sup_log' = calls
                /\ UNCHANGED <<metal_grade, temperature, latest_reading, sup_pubs>>
                /\ _embedded_broker' = broker
           ELSE IF topic = topics.control_generate_reading
           THEN /\ UNCHANGED <<metal_grade, incorrect_elements_count>>
                /\ generate_reading(broker, calls)
           ELSE /\ sup_log' = calls
                /\ UNCHANGED <<cfgVars, sup_pubs>>
                /\ _embedded_broker' = broker

\* on_message(client, userdata, msg), called for the callback that client
\* object `owner` registered: by topic, `self.metal_grade = payload`,
\* `self.incorrect_elements_count = int(payload)` (a ValueError is caught by
\* the except and nothing is assigned), or `self.generate_reading()`
on_message(topic, payload, owner, broker) ==
    LET calls == Append(sup_log, LogCall("message", topic, payload, owner,
                                         clients[owner].connected, TRUE))
    IN  /\ UNCHANGED <<client, clients>>
        /\ IF topic = topics.config_metal_grade
           THEN /\ metal_grade' = payload
                /\ sup_log' = calls
                /\ UNCHANGED <<incorrect_elements_count, temperature, latest_reading,
                               sup_pubs>>
                /\ _embedded_broker' = broker
           ELSE IF topic = topics.config_incorrect_elements
           THEN /\ incorrect_elements_count' =
                      IF int(Characters[payload]).ok
                      THEN int(Characters[payload]).value
                      ELSE incorrect_elements_count
                /\ sup_log' = calls
                /\ UNCHANGED <<metal_grade, temperature, latest_reading, sup_pubs>>
                /\ _embedded_broker' = broker
           ELSE IF topic = topics.control_generate_reading
           THEN /\ UNCHANGED <<metal_grade, incorrect_elements_count>>
                /\ generate_reading(broker, calls)
           ELSE /\ sup_log' = calls
                /\ UNCHANGED <<cfgVars, sup_pubs>>
                /\ _embedded_broker' = broker

-----------------------------------------------------------------------------
(* SpectrometerMQTTServer: start() *)

\* start(): `if self.running: return True`, else on to _try_tcp_broker
Start ==
    /\ st.pc = "idle"
    /\ nCalls + nInbound < MaxCalls
    /\ nCalls' = nCalls + 1
    /\ st' = IF sup_running
             THEN [SIdle EXCEPT !.op = "start", !.result = TRUE, !.early = TRUE]
             ELSE [SIdle EXCEPT !.op = "start", !.pc = "try_tcp"]
    /\ UNCHANGED <<notSup, cfgVars, inVars, sup_running, client, clients, use_embedded,
                   _broker_instance, _embedded_broker, sup_pubs>>

\* start(): `if not success: success = self._try_external_broker()` after
\* `success = self._try_tcp_broker()`
AfterTcp(success) == IF success THEN "finish" ELSE "try_external"
\* start(): `if not success and EMBEDDED_AVAILABLE:` (embedded_mqtt is part
\* of the program, the import succeeds)
AfterExternal(success) == IF success THEN "finish" ELSE "try_embedded"

\* an attempt ends: its name and outcome are recorded, and start() goes on
Attempted(backend, success, next) ==
    st' = [st EXCEPT !.tried = Append(@, backend),
                     !.outcomes = Append(@, success),
                     !.success = success,
                     !.pc = next, !.sub = 0, !.size = 0]

\* _try_tcp_broker.  start_tcp_mqtt_broker(): with no instance, one is made
\* and its start() binds the port or fails (the instance stays either way);
\* with an instance, True.  On False the attempt has failed.  On True: a paho
\* client becomes self.client, use_embedded = False, connect() raises or
\* returns, and after the wait is_connected() gives the outcome.  A client
\* seen connected has had its CONNACK handled: on_connect has subscribed and
\* called publish_status("ONLINE").
TryTcpBroker ==
    /\ st.pc = "try_tcp"
    /\ \E bound \in BOOLEAN, raises \in BOOLEAN, connected \in BOOLEAN :
         LET started == IF _broker_instance = "None" THEN bound ELSE TRUE
             ok == started /\ ~raises /\ connected
         IN  /\ _broker_instance' =
                   IF _broker_instance = "None"
                   THEN (IF bound THEN "listening" ELSE "unbound")
                   ELSE _broker_instance
             /\ (~started => ~raises /\ ~connected)
             /\ (raises => ~connected)
             /\ IF started
                THEN /\ clients' = Append(clients, [kind |-> "paho", connected |-> ok])
                     /\ client' = Len(clients) + 1
                     /\ use_embedded' = FALSE
                ELSE UNCHANGED <<clients, client, use_embedded>>
             /\ IF ok
                THEN publish_status("ONLINE", _embedded_broker)
                ELSE UNCHANGED <<sup_pubs, _embedded_broker>>
             /\ Attempted("tcp", ok, AfterTcp(ok))
    /\ UNCHANGED <<notSup, cfgVars, inVars, sup_running, nCalls>>

\* _try_external_broker: a paho client becomes self.client, use_embedded =
\* False, connect() raises or returns, is_connected() gives the outcome
TryExternalBroker ==
    /\ st.pc = "try_external"
    /\ \E raises \in BOOLEAN, connected \in BOOLEAN :
         LET ok == ~raises /\ connected
         IN  /\ (raises => ~connected)
             /\ clients' = Append(clients, [kind |-> "paho", connected |-> ok])
             /\ client' = Len(clients) + 1
             /\ use_embedded' = FALSE
             /\ IF ok
                THEN publish_status("ONLINE", _embedded_broker)
                ELSE UNCHANGED <<sup_pubs, _embedded_broker>>
             /\ Attempted("external", ok, AfterExternal(ok))
    /\ UNCHANGED <<notSup, cfgVars, inVars, sup_running, _broker_instance, nCalls>>

\* _try_embedded_broker: `self.client = create_embedded_client(...)`,
\* use_embedded = True, then EmbeddedMQTTClient.connect: the broker is made
\* and started if there is none, `self.connected = True`, and on_connect is
\* called, which begins with its first subscribe
TryEmbeddedBroker ==
    /\ st.pc = "try_embedded"
    /\ clients' = Append(clients, [kind |-> "embedded", connected |-> TRUE])
    /\ client' = Len(clients) + 1
    /\ use_embedded' = TRUE
    /\ _embedded_broker' = [_embedded_broker EXCEPT !.made = TRUE]
    /\ st' = [st EXCEPT !.pc = "subscribe", !.sub = 1]
    /\ UNCHANGED <<notSup, cfgVars, inVars, sup_running, _broker_instance, sup_pubs, nCalls>>

\* on_connect: `client.subscribe(topic)`; EmbeddedMQTTClient.subscribe calls
\* EmbeddedMQTTBroker.subscribe with a new callback: the callback is
\* registered and the `self.retained_messages.items()` iterator is created,
\* which records the store's size
EmbeddedSubscribe ==
    /\ st.pc = "subscribe"
    /\ _embedded_broker' =
          [_embedded_broker EXCEPT !.subscribers =
              Append(@, [topic |-> ConnectSubscriptions[st.sub], client |-> client])]
    /\ st' = [st EXCEPT !.pc = "retained", !.size = Len(_embedded_broker.retained_messages)]
    /\ UNCHANGED <<notSup, cfgVars, inVars, sup_running, client, clients, use_embedded,
                   _broker_instance, sup_pubs, nCalls>>

\* EmbeddedMQTTBroker.subscribe: the loop over the retained store.  No
\* retained topic equals one of the subscribed topics, so no callback is
\* called; the iterator's next() raises RuntimeError when the store has grown
\* since the iterator was made (the store never shrinks, so one comparison at
\* the end of the loop sees what any next() would have seen).  The exception
\* passes on_connect and connect and is caught in _try_embedded_broker, which
\* returns False.  Otherwise the next subscribe follows, and after the last
\* one `self.publish_status("ONLINE")` and _try_embedded_broker returns True.
EmbeddedRetained ==
    /\ st.pc = "retained"
    /\ UNCHANGED <<client, clients>>
    /\ IF Len(_embedded_broker.retained_messages) # st.size
       THEN /\ Attempted("embedded", FALSE, "finish")
            /\ UNCHANGED <<sup_pubs, _embedded_broker>>
       ELSE IF st.sub < Len(ConnectSubscriptions)
       THEN /\ st' = [st EXCEPT !.pc = "subscribe", !.sub = st.sub + 1, !.size = 0]
            /\ UNCHANGED <<sup_pubs, _embedded_broker>>
       ELSE /\ publish_status("ONLINE", _embedded_broker)
            /\ Attempted("embedded", TRUE, "finish")
    /\ UNCHANGED <<notSup, cfgVars, inVars, sup_running, use_embedded, _broker_instance, nCalls>>

\* start(): `if success: self.running = True; ...; self.generate_reading();
\* return True`, `else: return False`
StartFinish ==
    /\ st.pc = "finish"
    /\ sup_running' = (sup_running \/ st.success)
    /\ UNCHANGED <<client, clients>>
    /\ IF st.success
       THEN generate_reading(_embedded_broker, sup_log)
       ELSE UNCHANGED <<sup_pubs, _embedded_broker, latest_reading, temperature,
                        sup_log>>
    /\ st' = [st EXCEPT !.pc = "idle", !.result = st.success]
    /\ UNCHANGED <<notSup, metal_grade, incorrect_elements_count, dispatch, nInbound,
                   use_embedded, _broker_instance, nCalls>>

\* generate_reading() called by the application (the Read Data button)
GenerateReadingCall ==
    /\ st.pc = "idle"
    /\ nCalls + nInbound < MaxCalls
    /\ nCalls' = nCalls + 1
    /\ UNCHANGED <<client, clients>>
    /\ generate_reading(_embedded_broker, sup_log)
    /\ st' = [SIdle EXCEPT !.op = "generate_reading",
                           !.result = Simulates(metal_grade, incorrect_elements_count)
                                       /\ client # 0]
    /\ UNCHANGED <<notSup, metal_grade, incorrect_elements_count, dispatch, nInbound,
                   sup_running, use_embedded, _broker_instance>>

-----------------------------------------------------------------------------
(* SpectrometerMQTTServer: stop() *)

\* a stop() that disconnects the client before it publishes the status
StopDisconnectFirst ==
    /\ st.pc = "idle"
    /\ nCalls + nInbound < MaxCalls
    /\ nCalls' = nCalls + 1
    /\ client' = client
    /\ IF ~sup_running
       THEN /\ st' = [SIdle EXCEPT !.op = "stop", !.early = TRUE]
            /\ UNCHANGED <<sup_running, clients, sup_pubs, _embedded_broker>>
       ELSE /\ sup_running' = FALSE
            /\ clients' = [clients EXCEPT ![client].connected = FALSE]
            /\ publish_status("OFFLINE", _embedded_broker)
            /\ st' = [SIdle EXCEPT !.op = "stop", !.pc = "disconnect"]
    /\ UNCHANGED <<notSup, cfgVars, inVars, use_embedded, _broker_instance>>

\* stop(): `if not self.running: return`, else `self.running = False` and
\* `self.publish_status("OFFLINE")`
Stop ==
    /\ st.pc = "idle"
    /\ nCalls + nInbound < MaxCalls
    /\ nCalls' = nCalls + 1
    /\ UNCHANGED <<client, clients>>
    /\ IF ~sup_running
       THEN /\ st' = [SIdle EXCEPT !.op = "stop", !.early = TRUE]
            /\ UNCHANGED <<sup_running, sup_pubs, _embedded_broker>>
       ELSE /\ sup_running' = FALSE
            /\ publish_status("OFFLINE", _embedded_broker)
            /\ st' = [SIdle EXCEPT !.op = "stop", !.pc = "disconnect"]
    /\ UNCHANGED <<notSup, cfgVars, inVars, use_embedded, _broker_instance>>

\* stop(): `if self.client: self.client.disconnect(); self.client = None`,
\* then stop_tcp_mqtt_broker(), which stops the instance, if any, and sets
\* _broker_instance = None
StopDisconnect ==
    /\ st.pc = "disconnect"
    /\ clients' = IF client # 0 THEN [clients EXCEPT ![client].connected = FALSE]
                  ELSE clients
    /\ client' = 0
    /\ _broker_instance' = "None"
    /\ st' = [st EXCEPT !.pc = "idle"]
    /\ UNCHANGED <<notSup, cfgVars, inVars, sup_running, use_embedded, _embedded_broker, sup_pubs, nCalls>>

-----------------------------------------------------------------------------
(* Messages from other parties, and the in-process broker's dispatch thread *)

\* the number of keys of the broker's self.subscribers
SubscriberKeys(broker) ==
    Cardinality({broker.subscribers[i].topic : i \in DOMAIN broker.subscribers})

\* a remote client publishes on a topic the server has subscribed to, while
\* the server's paho client is connected: the client's network loop calls
\* on_message
PahoMessage(topic, payload) ==
    /\ nCalls + nInbound < MaxCalls
    /\ client # 0
    /\ clients[client].kind = "paho"
    /\ clients[client].connected
    /\ \E i \in DOMAIN ConnectSubscriptions : ConnectSubscriptions[i] = topic
    /\ nInbound' = nInbound + 1
    /\ on_message(topic, payload, client, _embedded_broker)
    /\ UNCHANGED <<notSup, sup_running, use_embedded, _broker_instance, st, nCalls,
                   dispatch>>

\* another client of the in-process broker publishes (not retained):
\* EmbeddedMQTTBroker.publish puts the message on the queue
ExternalPublish(topic, payload) ==
    /\ nCalls + nInbound < MaxCalls
    /\ _embedded_broker.made
    /\ nInbound' = nInbound + 1
    /\ _embedded_broker' = [_embedded_broker EXCEPT
                               !.message_queue = Append(@, Msg(topic, payload, FALSE))]
    /\ UNCHANGED <<notSup, cfgVars, sup_running, client, clients, use_embedded,
                   _broker_instance, st, sup_pubs, nCalls, dispatch, sup_log>>

\* _run_broker: a message is taken from the queue; _deliver_message stores
\* it when it is retained and creates the `self.subscribers.items()`
\* iterator, which records the dict's size
BrokerDispatch ==
    /\ _embedded_broker.made
    /\ ~dispatch.busy
    /\ _embedded_broker.message_queue # <<>>
    /\ LET m == Head(_embedded_broker.message_queue)
       IN  /\ _embedded_broker' =
                 [_embedded_broker EXCEPT
                     !.message_queue = Tail(@),
                     !.retained_messages = IF m.retain THEN StoreRetained(@, m) ELSE @]
           /\ dispatch' = [busy |-> TRUE, topic |-> m.topic, payload |-> m.payload,
                           pos |-> 0, size |-> SubscriberKeys(_embedded_broker)]
    /\ UNCHANGED <<notSup, cfgVars, sup_running, client, clients, use_embedded,
                   _broker_instance, st, sup_pubs, nCalls, nInbound, sup_log>>

\* _deliver_message: the loop over the subscribers.  The dict iterator
\* raises RuntimeError when the dict has another size than recorded (caught
\* in _run_broker: the delivery of the message ends).  The server's topics
\* hold no wildcard, so a callback matches when its topic is the message's;
\* it is called whether or not its client is still connected
\* (message_callback tests only `if self.on_message`), and calls the
\* server's on_message.
BrokerCallback ==
    /\ dispatch.busy
    /\ LET subs == _embedded_broker.subscribers
           later == {i \in DOMAIN subs : i > dispatch.pos /\ subs[i].topic = dispatch.topic}
       IN  IF SubscriberKeys(_embedded_broker) # dispatch.size \/ later = {}
           THEN /\ dispatch' = DIdle
                /\ UNCHANGED <<cfgVars, client, clients, sup_pubs, _embedded_broker,
                               sup_log>>
           ELSE LET i == CHOOSE k \in later : \A l \in later : k <= l
                IN  /\ dispatch' = [dispatch EXCEPT !.pos = i]
                    /\ on_message(dispatch.topic, dispatch.payload, subs[i].client,
                                  _embedded_broker)
    /\ UNCHANGED <<notSup, sup_running, use_embedded, _broker_instance, st, nCalls,
                   nInbound>>

SupNext ==
    \/ Start
    \/ TryTcpBroker
    \/ TryExternalBroker
    \/ TryEmbeddedBroker
    \/ EmbeddedSubscribe
    \/ EmbeddedRetained
    \/ StartFinish
    \/ GenerateReadingCall
    \/ Stop
    \/ StopDisconnect
    \/ \E topic \in InTopics, payload \in InPayloads : PahoMessage(topic, payload)
    \/ \E topic \in InTopics, payload \in InPayloads : ExternalPublish(topic, payload)
    \/ BrokerDispatch
    \/ BrokerCallback

-----------------------------------------------------------------------------
(* EmbeddedMQTTBroker: start() and stop() called again and again *)

\* start(): `if self.running: return True`; else `self.running = True`, a new
\* thread is made, stored in self.broker_thread and started
LifeStart ==
    /\ lifecycle = "idle"
    /\ nLife < MaxLife
    /\ nLife' = nLife + 1
    /\ IF running
       THEN UNCHANGED <<running, wst, broker_thread>>
       ELSE /\ \E w \in WorkerIds : wst[w].pc = "none"
            /\ running' = TRUE
            /\ LET w == CHOOSE x \in WorkerIds : wst[x].pc = "none"
               IN  /\ wst' = [wst EXCEPT ![w] = [WNone EXCEPT !.pc = "get"]]
                   /\ broker_thread' = w
    /\ UNCHANGED <<matchVars, tcpVars, supVars, accVars, cliVars, eqVars, lifecycle, subscribers, lists,
                   retained_messages, message_queue, tst, log, pubs, regVer, completed,
                   nSub, nUnsub, nSubOk>>

\* stop(): `self.running = False`, then `if self.broker_thread:
\* self.broker_thread.join(timeout=1)`
LifeStop ==
    /\ lifecycle = "idle"
    /\ nLife < MaxLife
    /\ nLife' = nLife + 1
    /\ running' = FALSE
    /\ lifecycle' = IF broker_thread = "None" THEN "idle" ELSE "join"
    /\ UNCHANGED <<matchVars, tcpVars, supVars, accVars, cliVars, eqVars, broker_thread, subscribers, lists,
                   retained_messages, message_queue, wst, tst, log, pubs, regVer,
                   completed, nSub, nUnsub, nSubOk>>

\* stop(): join(timeout=1) returns, because the thread has ended or because
\* the second has passed.  A thread waiting at the queue wakes within 0.1 s
\* and ends; one that is inside a callback stays there as long as the
\* callback takes.
LifeJoin ==
    /\ lifecycle = "join"
    /\ wst[broker_thread].pc \in {"none", "call"}
    /\ lifecycle' = "idle"
    /\ UNCHANGED <<matchVars, tcpVars, supVars, accVars, cliVars, eqVars, embVars, broker_thread, nLife>>

\* _run_broker: `while self.running` is false, the thread ends
RunExit(w) ==
    /\ wst[w].pc = "get"
    /\ ~running
    /\ wst' = [wst EXCEPT ![w] = WNone]
    /\ UNCHANGED <<notEmb, running, subscribers, lists, retained_messages,
                   message_queue, tst, log, pubs, regVer, completed, nSub, nUnsub,
                   nSubOk>>

LifeNext ==
    \/ LifeStart
    \/ LifeStop
    \/ LifeJoin
    \/ \E w \in WorkerIds : RunExit(w)
    \/ \E topic \in BTopics, payload \in Payloads, retain \in BOOLEAN :
          Publish(topic, payload, retain)
    \/ \E w \in WorkerIds : RunGet(w)
    \/ \E w \in WorkerIds : DeliverIter(w)
    \/ \E w \in WorkerIds : DeliverNext(w)
    \/ \E w \in WorkerIds : DeliverCbNext(w)
    \/ \E w \in WorkerIds : DeliverCall(w)
    \/ \E t \in Threads, f \in BFilters, cb \in Callbacks : SubscribeBegin(t, f, cb)
    \/ \E t \in Threads : SubscribeSet(t)
    \/ \E t \in Threads : SubscribeGet(t)
    \/ \E t \in Threads : SubscribeAppend(t)
    \/ \E t \in Threads : SubscribeNext(t)
    \/ \E t \in Threads : SubscribeCall(t)

-----------------------------------------------------------------------------
(* SimpleTCPMQTTBroker: client ids over many connections *)

\* _run_server: accept() returns a new socket object (the connections are
\* numbered in the order they are accepted), and its entry is stored with
\* 'client_id': f'client_{len(self.clients)}', the length being taken before
\* the entry is added
AccAccept ==
    /\ nAccepted < MaxConns
    /\ nAccepted' = nAccepted + 1
    /\ acc_clients' = [x \in (DOMAIN acc_clients) \cup {nAccepted + 1} |->
                          IF x = nAccepted + 1
                          THEN [client_id |-> Cardinality(DOMAIN acc_clients)]
                          ELSE acc_clients[x]]
    /\ UNCHANGED <<matchVars, embVars, tcpVars, supVars, lifeVars, cliVars, eqVars>>

\* _disconnect_client: `if client_socket in self.clients:
\* del self.clients[client_socket]`
AccDisconnect(s) ==
    /\ s \in DOMAIN acc_clients
    /\ acc_clients' = [x \in (DOMAIN acc_clients) \ {s} |-> acc_clients[x]]
    /\ UNCHANGED <<matchVars, embVars, tcpVars, supVars, lifeVars, cliVars, eqVars, nAccepted>>

AccNext ==
    \/ AccAccept
    \/ \E s \in 1..MaxConns : AccDisconnect(s)

-----------------------------------------------------------------------------
(* EmbeddedMQTTClient: connect, subscribe, unsubscribe, disconnect *)

\* the topics the in-process client subscribes to and is published to
CTopics == {<<"a">>, <<"b">>}

\* EmbeddedMQTTClient.__init__, on a broker with no subscriber
CliInit ==
    /\ cli_connected = FALSE
    /\ _subscriptions = [x \in {} |-> 0]
    /\ cli_subscribers = [x \in {} |-> <<>>]
    /\ cli_last = [t \in CTopics |-> "none"]
    /\ cli_log = <<>>
    /\ nCb = 0
    /\ nCli = 0

\* what the actions of the client leave unchanged
notCli == <<matchVars, embVars, tcpVars, supVars, lifeVars, accVars, eqVars>>

\* connect(): `self.connected = True` (no on_connect handler is set)
CliConnect ==
    /\ nCli < MaxCliOps
    /\ nCli' = nCli + 1
    /\ cli_connected' = TRUE
    /\ UNCHANGED <<notCli, _subscriptions, cli_subscribers, cli_last, cli_log, nCb>>

\* disconnect(): `self.connected = False`
CliDisconnect ==
    /\ nCli < MaxCliOps
    /\ nCli' = nCli + 1
    /\ cli_connected' = FALSE
    /\ UNCHANGED <<notCli, _subscriptions, cli_subscribers, cli_last, cli_log, nCb>>

\* subscribe(topic): `if not self.connected: return`; a new message_callback
\* closure is made, stored with `self._subscriptions[topic] =
\* message_callback` (an earlier one stored for the topic is replaced) and
\* handed to the broker's subscribe, which appends it to the topic's list
CliSubscribe(topic) ==
    /\ nCli < MaxCliOps
    /\ nCli' = nCli + 1
    /\ IF ~cli_connected
       THEN UNCHANGED <<_subscriptions, cli_subscribers, cli_last, nCb>>
       ELSE /\ nCb' = nCb + 1
            /\ _subscriptions' =
                  [x \in (DOMAIN _subscriptions) \cup {topic} |->
                      IF x = topic THEN nCb + 1 ELSE _subscriptions[x]]
            /\ cli_subscribers' =
                  [x \in (DOMAIN cli_subscribers) \cup {topic} |->
                      IF x = topic
                      THEN (IF topic \in DOMAIN cli_subscribers
                            THEN Append(cli_subscribers[topic], nCb + 1)
                            ELSE <<nCb + 1>>)
                      ELSE cli_subscribers[x]]
            /\ cli_last' = [cli_last EXCEPT ![topic] = "subscribe"]
    /\ UNCHANGED <<notCli, cli_connected, cli_log>>

\* unsubscribe(topic): `if topic in self._subscriptions:` the broker's
\* unsubscribe removes the stored callback from the topic's list
\* (list.remove, the key deleted when the list is empty) and the stored
\* entry is deleted
CliUnsubscribe(topic) ==
    /\ nCli < MaxCliOps
    /\ nCli' = nCli + 1
    /\ IF topic \in DOMAIN _subscriptions
       THEN LET left == ListRemove(cli_subscribers[topic], _subscriptions[topic])
            IN  /\ cli_subscribers' =
                      IF left = <<>>
                      THEN [x \in (DOMAIN cli_subscribers) \ {topic} |-> cli_subscribers[x]]
                      ELSE [cli_subscribers EXCEPT ![topic] = left]
                /\ _subscriptions' =
                      [x \in (DOMAIN _subscriptions) \ {topic} |-> _subscriptions[x]]
       ELSE UNCHANGED <<_subscriptions, cli_subscribers>>
    /\ cli_last' = [cli_last EXCEPT ![topic] = "unsubscribe"]
    /\ UNCHANGED <<notCli, cli_connected, cli_log, nCb>>

\* the callbacks the broker's dispatch calls for a message on the topic, in
\* order: the client's topics hold no wildcard, so the list of the key equal
\* to the topic
CliCallbacks(topic) ==
    IF topic \in DOMAIN cli_subscribers THEN cli_subscribers[topic] ELSE <<>>

\* a message on the topic is published and dispatched: each registered
\* message_callback calls the client's on_message (it tests `if
\* self.on_message`, not self.connected)
CliDispatch(topic) ==
    /\ nCli < MaxCliOps
    /\ nCli' = nCli + 1
    /\ cli_log' = cli_log \o [i \in 1..Len(CliCallbacks(topic)) |->
                                 [topic |-> topic, callback |-> CliCallbacks(topic)[i]]]
    /\ UNCHANGED <<notCli, cli_connected, _subscriptions, cli_subscribers, cli_last, nCb>>

CliNext ==
    \/ CliConnect
    \/ CliDisconnect
    \/ \E topic \in CTopics : CliSubscribe(topic)
    \/ \E topic \in CTopics : CliUnsubscribe(topic)
    \/ \E topic \in CTopics : CliDispatch(topic)

-----------------------------------------------------------------------------
(* The in-process broker and the wire broker given the same calls *)

\* the clients, the topics they publish on, the filters they subscribe to
\* and the payloads
EqClients == {"k1", "k2"}
EqTopics == {<<"a">>}
EqFilters == {<<"a">>, <<"#">>}
EqPayloads == {"X", "Y"}

EqInit ==
    /\ eq_subscribers = <<>>
    /\ eq_retained = <<>>
    /\ eq_received = [c \in EqClients |-> <<>>]
    /\ eq_subscriptions = <<>>
    /\ eq_tcp_retained = <<>>
    /\ eq_tcp_received = [c \in EqClients |-> <<>>]
    /\ nEq = 0

\* a dict, as its entries in insertion order: the position of a key (0 when
\* absent) and the assignment d[key] = value
EqIdx(d, key) ==
    LET S == {i \in DOMAIN d : d[i].key = key}
    IN  IF S = {} THEN 0 ELSE CHOOSE i \in S : TRUE
EqPut(d, key, value) ==
    IF EqIdx(d, key) = 0
    THEN Append(d, [key |-> key, value |-> value])
    ELSE [d EXCEPT ![EqIdx(d, key)].value = value]

\* n deliveries of (topic, payload)
EqTimes(n, topic, payload) == [i \in 1..n |-> <<topic, payload>>]

\* EmbeddedMQTTBroker._deliver_message: the number of callbacks of client c
\* registered under keys that match the topic; each is called once
EmbCalls(subs, c, topic) ==
    Cardinality({p \in (DOMAIN subs) \X (1..MaxEqOps + 1) :
                    /\ _topic_matches(topic, subs[p[1]].key)
                    /\ p[2] <= Len(subs[p[1]].value)
                    /\ subs[p[1]].value[p[2]] = c})

\* EmbeddedMQTTBroker.subscribe: the retained entries whose topic matches
\* the filter, in the store's order
EmbReplay(retained, filter) ==
    LET hits == SelectSeq(retained, LAMBDA e : _topic_matches(e.key, filter))
    IN  [i \in 1..Len(hits) |-> <<hits[i].key, hits[i].value>>]

\* client c subscribes to a filter.
\* In-process: EmbeddedMQTTClient.subscribe makes a callback and
\* EmbeddedMQTTBroker.subscribe appends it to the filter's list and calls it
\* with every matching retained entry.
\* Wire: _handle_subscribe adds the session to the filter's list unless it
\* is in it, and sends the retained payload stored under the filter itself,
\* if any.
EqSubscribe(c, filter) ==
    /\ nEq < MaxEqOps
    /\ nEq' = nEq + 1
    /\ eq_subscribers' =
          EqPut(eq_subscribers, filter,
                IF EqIdx(eq_subscribers, filter) = 0 THEN <<c>>
                ELSE Append(eq_subscribers[EqIdx(eq_subscribers, filter)].value, c))
    /\ eq_received' = [eq_received EXCEPT ![c] = @ \o EmbReplay(eq_retained, filter)]
    /\ eq_subscriptions' =
          LET i == EqIdx(eq_subscriptions, filter)
          IN  IF i = 0 THEN Append(eq_subscriptions, [key |-> filter, value |-> <<c>>])
              ELSE IF ListHas(eq_subscriptions[i].value, c) THEN eq_subscriptions
              ELSE [eq_subscriptions EXCEPT ![i].value = Append(@, c)]
    /\ eq_tcp_received' =
          LET i == EqIdx(eq_tcp_retained, filter)
          IN  IF i = 0 THEN eq_tcp_received
              ELSE [eq_tcp_received EXCEPT
                       ![c] = Append(@, <<filter, eq_tcp_retained[i].value>>)]
    /\ UNCHANGED <<matchVars, embVars, tcpVars, supVars, lifeVars, accVars, cliVars,
                   eq_retained, eq_tcp_retained>>

\* client c publishes, and the message is dispatched.
\* In-process: _deliver_message stores the payload when retain is set and
\* calls every callback registered under a matching key.
\* Wire: _handle_publish stores the payload under the topic whatever the
\* retain flag of the frame, and forwards the frame to the sessions in the
\* list of the key equal to the topic, the sender left out.
EqPublish(c, topic, payload, retain) ==
    /\ nEq < MaxEqOps
    /\ nEq' = nEq + 1
    /\ eq_retained' = IF retain THEN EqPut(eq_retained, topic, payload) ELSE eq_retained
    /\ eq_received' =
          [k \in EqClients |->
              eq_received[k] \o EqTimes(EmbCalls(eq_subscribers, k, topic), topic, payload)]
    /\ eq_tcp_retained' = EqPut(eq_tcp_retained, topic, payload)
    /\ eq_tcp_received' =
          LET i == EqIdx(eq_subscriptions, topic)
          IN  [k \in EqClients |->
                  IF i # 0 /\ k # c /\ ListHas(eq_subscriptions[i].value, k)
                  THEN Append(eq_tcp_received[k], <<topic, payload>>)
                  ELSE eq_tcp_received[k]]
    /\ UNCHANGED <<matchVars, embVars, tcpVars, supVars, lifeVars, accVars, cliVars,
                   eq_subscribers, eq_subscriptions>>

EqNext ==
    \/ \E c \in EqClients, filter \in EqFilters : EqSubscribe(c, filter)
    \/ \E c \in EqClients, topic \in EqTopics, payload \in EqPayloads,
          retain \in BOOLEAN : EqPublish(c, topic, payload, retain)

-----------------------------------------------------------------------------
(* Specifications *)

EmbIdle ==
    /\ running = FALSE /\ subscribers = <<>> /\ lists = <<>>
    /\ retained_messages = <<>> /\ message_queue = <<>>
    /\ wst = [w \in WorkerIds |-> WNone] /\ tst = [t \in Threads |-> TIdle]
    /\ log = [c \in Callbacks |-> <<>>] /\ pubs = <<>> /\ regVer = 0
    /\ completed = {} /\ nSub = 0 /\ nUnsub = 0 /\ nSubOk = 0

EmbNext ==
    \/ EmbStart
    \/ \E topic \in BTopics, payload \in Payloads, retain \in BOOLEAN :
          Publish(topic, payload, retain)
    \/ \E w \in WorkerIds : RunGet(w)
    \/ \E w \in WorkerIds : DeliverIter(w)
    \/ \E w \in WorkerIds : DeliverNext(w)
    \/ \E w \in WorkerIds : DeliverCbNext(w)
    \/ \E w \in WorkerIds : DeliverCall(w)
    \/ \E t \in Threads, f \in BFilters, cb \in Callbacks : SubscribeBegin(t, f, cb)
    \/ \E t \in Threads : SubscribeSet(t)
    \/ \E t \in Threads : SubscribeGet(t)
    \/ \E t \in Threads : SubscribeAppend(t)
    \/ \E t \in Threads : SubscribeNext(t)
    \/ \E t \in Threads : SubscribeCall(t)
    \/ \E t \in Threads, f \in BFilters, cb \in Callbacks : UnsubscribeBegin(t, f, cb)
    \/ \E t \in Threads : UnsubscribeGet(t)
    \/ \E t \in Threads : UnsubscribeRemove(t)
    \/ \E t \in Threads : UnsubscribeCheck(t)
    \/ \E t \in Threads : UnsubscribeDel(t)

MatchNext == Match

\* the broker's start() / stop() caller before any call
LifeInit == broker_thread = "None" /\ lifecycle = "idle" /\ nLife = 0

\* the wire broker's sessions before any connection
AccInit == acc_clients = [x \in {} |-> 0] /\ nAccepted = 0

MoreIdle == LifeInit /\ AccInit /\ CliInit /\ EqInit

InitMatch == MatchInit /\ EmbIdle /\ TcpInit /\ SupInit /\ MoreIdle
NextMatch == MatchNext

InitEmb == MatchIdle /\ EmbInit /\ TcpInit /\ SupInit /\ MoreIdle
NextEmb == EmbNext

InitTcp == MatchIdle /\ EmbIdle /\ TcpInit /\ SupInit /\ MoreIdle
NextTcp == TcpNext

InitSup == MatchIdle /\ EmbIdle /\ TcpInit /\ SupInit /\ MoreIdle
NextSup == SupNext

\* the matching rule alone
SpecMatch == InitMatch /\ [][NextMatch]_vars

\* the in-process broker: its dispatch thread, a caller thread inside
\* subscribe / unsubscribe, and publishers
SpecEmb == InitEmb /\ [][NextEmb]_vars

\* the in-process broker started and stopped: the thread calling start() and
\* stop(), the dispatch threads, a subscriber and publishers
InitLife == MatchIdle /\ EmbInit /\ TcpInit /\ SupInit /\ MoreIdle
NextLife == LifeNext
SpecLife == InitLife /\ [][NextLife]_vars

\* the wire broker's session table under accepts and disconnects
InitAcc == MatchIdle /\ EmbIdle /\ TcpInit /\ SupInit /\ MoreIdle
NextAcc == AccNext
SpecAcc == InitAcc /\ [][NextAcc]_vars

\* one in-process client and the broker's registry
InitCli == MatchIdle /\ EmbIdle /\ TcpInit /\ SupInit /\ MoreIdle
NextCli == CliNext
SpecCli == InitCli /\ [][NextCli]_vars

\* both brokers given the same subscribe and publish calls, one at a time
InitEq == MatchIdle /\ EmbIdle /\ TcpInit /\ SupInit /\ MoreIdle
NextEq == EqNext
SpecEq == InitEq /\ [][NextEq]_vars

\* the wire broker: the accept thread and one handler thread per connection
SpecTcp == InitTcp /\ [][NextTcp]_vars

\* the server: the application's start() and stop() calls and the in-process
\* broker's dispatch thread
SpecSup == InitSup /\ [][NextSup]_vars

-----------------------------------------------------------------------------
(* The matching rule (SpecMatch) *)

\* s ends with p
EndsWith(s, p) == Len(p) <= Len(s) /\ SubSeq(s, Len(s) - Len(p) + 1, Len(s)) = p

\* the rule of the design: exact, "#", or a trailing "#" whose prefix is a
\* prefix of the topic
RuleMatches(topic, filter) ==
    \/ filter = topic
    \/ filter = <<"#">>
    \/ /\ EndsWith(filter, <<"#">>)
       /\ StartsWith(topic, SubSeq(filter, 1, Len(filter) - 1))

\* C1 (as claimed): _topic_matches(T, F) is true exactly when F = T, or F is
\* "#", or F ends with "#" and T starts with F minus that trailing "#"; a
\* filter with "#" elsewhere matches only the topic equal to it.
C1_MatchesIffRule ==
    mpc = "out" => (mResult <=> RuleMatches(mTopic, mPattern))

\* the prefix P of a filter P + "/#"
PrefixOf(filter) == SubSeq(filter, 1, Len(filter) - 2)
IsPrefixFilter(filter) ==
    /\ EndsWith(filter, <<"/", "#">>)
    /\ ~Contains(PrefixOf(filter), "#")

-----------------------------------------------------------------------------
(* The in-process broker (SpecEmb) *)

\* the invocations of callback c made for message id by the dispatch thread
Dispatched(c, id) ==
    {k \in DOMAIN log[c] : log[c][k].id = id /\ log[c][k].via = "dispatch"}

\* thread t has finished a subscribe call (and begun nothing since)
SubscribeOver(t) == tst[t].pc = "idle" /\ tst[t].op = "sub"

\* the retained publish i is the last one on its topic among the first n
LastRetainedOn(i, n) ==
    /\ pubs[i].msg.retain
    /\ \A j \in (i + 1)..n :
          ~(pubs[j].msg.retain /\ pubs[j].msg.topic = pubs[i].msg.topic)

\* C3 (as claimed): if publish(T, X, retain=true) is called (on the running
\* broker) before any subscriber exists and subscribe(F, cb), F matching T,
\* is called afterwards, then cb is invoked with (T, X) inside that subscribe
\* call, whatever the dispatch thread has done meanwhile.
C3_RetainedReplayedInSubscribe ==
    \A t \in Threads :
        (SubscribeOver(t) /\ tst[t].subBefore = 0) =>
            \A i \in 1..tst[t].pubStart :
                (/\ LastRetainedOn(i, tst[t].pubStart)
                 /\ pubs[i].running
                 /\ _topic_matches(pubs[i].msg.topic, tst[t].filter))
                => \E k \in (tst[t].startLog + 1)..Len(log[tst[t].cb]) :
                      /\ log[tst[t].cb][k].via = t
                      /\ log[tst[t].cb][k].topic = pubs[i].msg.topic
                      /\ log[tst[t].cb][k].payload = pubs[i].msg.payload

\* C4 (as claimed): within a subscribe call, the callback is never invoked by
\* the dispatch thread with a message on a topic and afterwards by the replay
\* with an older retained entry of that topic.
C4_NoNewerBeforeOlderRetained ==
    \A t \in Threads :
        tst[t].op = "sub" =>
            LET L == log[tst[t].cb]
            IN  \A i, j \in (tst[t].startLog + 1)..Len(L) :
                    (/\ i < j
                     /\ L[i].via = "dispatch"
                     /\ L[j].via = t
                     /\ L[i].topic = L[j].topic)
                    => L[i].id <= L[j].id

SingleHashSubscribe(t) ==
    /\ nSub = 1 /\ nUnsub = 0 /\ nSubOk = 1
    /\ SubscribeOver(t)
    /\ tst[t].filter = <<"#">>

\* C6: after a single subscribe("#", cb), every message published after that
\* call returned is delivered to cb at most once while it is pending and
\* exactly once when its dispatch has ended, with its own topic and payload.
C6_HashSubscriberExactlyOnce ==
    \A t \in Threads :
        SingleHashSubscribe(t) =>
            \A i \in DOMAIN pubs :
                pubs[i].subOk = 1 =>
                    LET K == {k \in DOMAIN log[tst[t].cb] : log[tst[t].cb][k].id = i}
                    IN  /\ Cardinality(K) <= 1
                        /\ i \in completed => Cardinality(K) = 1
                        /\ \A k \in K :
                              /\ log[tst[t].cb][k].via = "dispatch"
                              /\ log[tst[t].cb][k].topic = pubs[i].msg.topic
                              /\ log[tst[t].cb][k].payload = pubs[i].msg.payload

\* C6's case: such a message has been dispatched and cb has received it
C6_Witness ==
    \E t \in Threads :
        /\ SingleHashSubscribe(t)
        /\ \E i \in DOMAIN pubs :
              /\ pubs[i].subOk = 1
              /\ i \in completed
              /\ Cardinality(Dispatched(tst[t].cb, i)) = 1

\* worker w has ended the dispatch of a message without a RuntimeError of the
\* registry iteration, and the registry is as it was when the iteration began
CleanDispatchOver(w) ==
    /\ wst[w].pc = "get"
    /\ wst[w].msg.id # 0
    /\ ~wst[w].aborted
    /\ regVer = wst[w].ver

\* the live registry entries whose filter matches the topic
MatchingEntries(topic) ==
    {i \in DOMAIN subscribers : subscribers[i].live /\ _topic_matches(topic, subscribers[i].key)}

\* how many times callback c is registered under filters matching the topic
Registrations(c, topic) ==
    Cardinality({p \in MatchingEntries(topic) \X (1..MaxOps + 1) :
                    /\ p[2] <= Len(lists[subscribers[p[1]].lid])
                    /\ lists[subscribers[p[1]].lid][p[2]] = c})

\* C7: when a dispatch has ended, every callback registered under a matching
\* filter has been invoked with the message once per registration, whether or
\* not another callback raised on the way; the dispatch thread is back at the
\* queue.
C7_RaisingCallbackIsolated ==
    \A w \in WorkerIds :
        CleanDispatchOver(w) =>
            \A c \in Callbacks :
                Cardinality(Dispatched(c, wst[w].msg.id))
                    = Registrations(c, wst[w].msg.topic)

\* C7's case: a raising callback and, after it in the same list, a second
\* callback have both been invoked with the message
C7_Witness ==
    \E w \in WorkerIds :
        /\ CleanDispatchOver(w)
        /\ \E i \in MatchingEntries(wst[w].msg.topic) :
              lists[subscribers[i].lid] = <<"c2", "c1">>
        /\ "c2" \in RaisingCallbacks
        /\ Dispatched("c2", wst[w].msg.id) # {}
        /\ Dispatched("c1", wst[w].msg.id) # {}

\* C8 (as claimed): while a dispatch pass iterates the registry no other
\* thread mutates it, and no dispatch is aborted part-way by a concurrent
\* mutation.
C8_RegistryMutualExclusion ==
    \A w \in WorkerIds :
        /\ wst[w].pc \in {"next", "cbnext", "call"} => regVer = wst[w].ver
        /\ ~wst[w].aborted


-----------------------------------------------------------------------------
(* The wire broker's forwarding (SpecTcp) *)

\* the topic a received publish frame names
PublishedTopic(r) == ParsePublish(rcvd[r].data).topic

\* session `a` has been sent the frame received as number `r`
Forwarded(a, r) == \E i \in 1..Len(outbox[a]) : outbox[a][i].rid = r

\* session `a` is live and registered under a filter matching `topic`
HoldsMatching(a, topic) ==
    /\ a \in DOMAIN tcp_clients
    /\ \E i \in 1..Len(tcp_subscriptions) :
          /\ InList(a, tcp_lists[tcp_subscriptions[i].lid])
          /\ _topic_matches(topic, tcp_subscriptions[i].key)

\* C9: once the handling of a publish frame received from session S on
\* topic T has ended, every other session that held a subscription with a
\* filter matching T when the frame was received, and is still live and
\* still holds one, has been sent that frame.
C9_ForwardedToEveryMatching ==
    \A r \in handled :
        \A a \in rcvd[r].expect :
            HoldsMatching(a, PublishedTopic(r)) => Forwarded(a, r)

\* C10: a frame forwarded to a session was received from another session,
\* and the bytes sent are the bytes received.
C10_NotToSenderAndVerbatim ==
    \A a \in Sockets :
        \A i \in 1..Len(outbox[a]) :
            outbox[a][i].rid # 0 =>
                /\ rcvd[outbox[a][i].rid].sock # a
                /\ outbox[a][i].bytes = rcvd[outbox[a][i].rid].data

\* C10's case: the handling of a publish has ended, its sender was
\* registered under the published topic when it sent the frame and still
\* is, and another session has been sent the frame.
C10_Witness ==
    \E r \in handled :
        /\ rcvd[r].subscribed
        /\ TcpHasKey(PublishedTopic(r))
        /\ InList(rcvd[r].sock, TcpList(PublishedTopic(r)))
        /\ \E a \in Sockets \ {rcvd[r].sock} : Forwarded(a, r)


-----------------------------------------------------------------------------
(* The wire broker's retained store and frame handling (SpecTcp) *)

\* a publish frame as the protocol lays it out: control byte, length byte,
\* [2-byte topic length][topic bytes][payload bytes], the payload possibly
\* empty
WellFormedPublish(data) ==
    /\ Len(data) >= 4
    /\ PacketType(data) = 3
    /\ Len(data) >= 4 + U16(Slice(data, 2, 4))
    /\ Decodable(Slice(data, 4, 4 + U16(Slice(data, 2, 4))))
FrameTopic(data) == Decode(Slice(data, 4, 4 + U16(Slice(data, 2, 4))))
FramePayload(data) == Slice(data, 4 + U16(Slice(data, 2, 4)), Len(data))

\* C11: the step that receives a publish frame with the body [2-byte topic
\* length][topic bytes][payload bytes] leaves the retained entry of that
\* topic equal to that payload, whoever is subscribed and also when the
\* payload is empty.
C11_PublishSetsRetained ==
    [][\A s \in Sockets :
         (/\ hst[s].pc = "recv"
          /\ hst'[s].pc # "recv"
          /\ WellFormedPublish(hst'[s].data))
         => LET data == hst'[s].data
            IN  /\ FrameTopic(data) \in DOMAIN tcp_retained'
                /\ tcp_retained'[FrameTopic(data)] = FramePayload(data)]_vars

\* C12: the step in which the broker's own publish(topic, payload) is called
\* leaves the retained entry of the topic equal to the payload, also when no
\* session is subscribed to the topic.
C12_ServerPublishSetsRetained ==
    [][srv'.calls = srv.calls + 1
       => /\ srv'.topic \in DOMAIN tcp_retained'
          /\ tcp_retained'[srv'.topic] = Encode(srv'.payload)]_vars

\* a subscribe frame as the protocol lays it out: control byte, length
\* byte, [2-byte packet id][2-byte topic length][topic bytes]
WellFormedSubscribe(data) ==
    /\ Len(data) >= 6
    /\ PacketType(data) = 8
    /\ Len(data) >= 6 + U16(Slice(data, 4, 6))
    /\ Decodable(Slice(data, 6, 6 + U16(Slice(data, 4, 6))))
SubscribeTopic(data) == Decode(Slice(data, 6, 6 + U16(Slice(data, 4, 6))))
SubscribePacketId(data) == Slice(data, 2, 4)

\* C13: when the handling of a subscribe frame with the body [2-byte packet
\* id][2-byte topic length][topic bytes] has ended, the sending session is
\* registered under that topic and has been sent the SUBACK [0x90, 0x03,
\* packet id, 0x00] with the frame's packet id.
C13_SubscribeRegistersAndAcks ==
    \A s \in Sockets :
        (hst[s].pc = "loop" /\ WellFormedSubscribe(hst[s].data)) =>
            /\ TcpHasKey(SubscribeTopic(hst[s].data))
            /\ InList(s, TcpList(SubscribeTopic(hst[s].data)))
            /\ \E i \in 1..Len(outbox[s]) :
                  outbox[s][i].bytes =
                      <<144, 3>> \o SubscribePacketId(hst[s].data) \o <<0>>

\* C14: the step of a subscribe handling that looks the topic T up in the
\* retained store, when an entry exists, sends the subscribing session one
\* frame, after the SUBACK: [0x30, length, 2-byte topic length, T, retained
\* payload], which the broker's publish parser decodes to T and that payload.
C14_RetainedReplayRoundTrip ==
    [][\A s \in Sockets :
         (/\ hst[s].pc = "sub_ret"
          /\ hst'[s].pc = "loop"
          /\ hst[s].topic \in DOMAIN tcp_retained)
         => /\ Len(outbox'[s]) = Len(outbox[s]) + 1
            /\ \E i \in 1..Len(outbox[s]) :
                  outbox[s][i].bytes = Suback(ParseSubscribe(hst[s].data).packet_id)
            /\ LET frame == outbox'[s][Len(outbox'[s])].bytes
               IN  /\ frame[1] = 48
                   /\ ParsePublish(frame).kind = "ok"
                   /\ ParsePublish(frame).topic = hst[s].topic
                   /\ ParsePublish(frame).payload = tcp_retained[hst[s].topic]]_vars

\* the teardown of a session has ended: its handler thread has terminated
Destroyed(s) == hst[s].pc = "dead"

\* C15: once a session is destroyed, no subscription list holds its socket
\* (so that no later publish looks at it), whatever the other sessions'
\* handlers did during the teardown.
C15_DestroyedSessionUnregistered ==
    \A s \in Sockets :
        Destroyed(s) =>
            \A i \in 1..Len(tcp_subscriptions) :
                ~InList(s, tcp_lists[tcp_subscriptions[i].lid])

\* a publish or subscribe frame that cannot be decoded: cut short, with a
\* topic length beyond the data, or with a topic that is not UTF-8
Undecodable(data) ==
    /\ Len(data) >= 1
    /\ \/ PacketType(data) = 3 /\ ~WellFormedPublish(data)
       \/ PacketType(data) = 8 /\ ~WellFormedSubscribe(data)

\* C16: when the handling of a frame that cannot be decoded has ended, the
\* sending session is gone from the client table and from every
\* subscription list, as after a disconnect frame.
C16_UndecodableFrameTearsDown ==
    \A s \in Sockets :
        (hst[s].pc = "loop" /\ Undecodable(hst[s].data)) =>
            /\ s \notin DOMAIN tcp_clients
            /\ \A i \in 1..Len(tcp_subscriptions) :
                  ~InList(s, tcp_lists[tcp_subscriptions[i].lid])

\* every session is destroyed and every handler thread has terminated
AllSessionsDestroyed ==
    \A s \in Sockets :
        /\ hst[s].pc \in {"none", "dead"}
        /\ sock[s] # "open"
        /\ s \notin DOMAIN tcp_clients

\* C17: after stop(), every session is eventually destroyed and every
\* handler thread terminates without a byte or a close from the client; so
\* in no state after stop() is the broker left with a live session and no
\* step its own threads can take.
C17_StopDestroysSessions ==
    tcp_stopped => (AllSessionsDestroyed \/ ENABLED BrokerStep)

-----------------------------------------------------------------------------
(* The server's start() and stop() (SpecSup) *)

\* start() has returned, after attempting at least one backend
StartReturned == st.pc = "idle" /\ st.op = "start" /\ st.tried # <<>>

\* the backends start() has attempted are the first ones of the order, each
\* once, and every attempt but the last has failed
AttemptsInOrder ==
    /\ Len(st.tried) <= Len(BackendOrder)
    /\ \A i \in DOMAIN st.tried : st.tried[i] = BackendOrder[i]
    /\ \A i \in DOMAIN st.outcomes : i < Len(st.outcomes) => ~st.outcomes[i]

\* start() returns what its last attempt gave, and False only after the
\* in-process attempt
ReturnsLastOutcome ==
    StartReturned =>
        /\ st.result = st.outcomes[Len(st.outcomes)]
        /\ (~st.result => Len(st.tried) = Len(BackendOrder))

\* C18: start() tries the wire broker, the remote broker and the in-process
\* broker in this order, each at most once, a later one only after every
\* earlier one has failed; it returns success as soon as one succeeds and
\* failure only when all are exhausted; and when the wire broker and the
\* remote broker have both failed, it ends with running = True and the
\* in-process client as self.client.
C18_FallbackOrder ==
    /\ AttemptsInOrder
    /\ ReturnsLastOutcome
    /\ (StartReturned /\ Len(st.tried) = Len(BackendOrder)) =>
          /\ st.result
          /\ sup_running
          /\ client # 0
          /\ clients[client].kind = "embedded"

\* the "OFFLINE" status messages among the publish calls made so far
OfflinePublishes(ps) ==
    SelectSeq(ps, LAMBDA p : p.topic = topics.status /\ p.payload = "OFFLINE")

\* a step that begins a stop() call
StopCalled == nCalls' = nCalls + 1 /\ st'.op = "stop"

\* C19: a stop() called while the server is not running (never started, or
\* already stopped) changes nothing and publishes nothing; every step that
\* takes the server out of running publishes the "OFFLINE" status exactly
\* once, and no other step publishes it.
C19_StopIdempotent ==
    [][/\ (StopCalled /\ ~sup_running) =>
             UNCHANGED <<sup_running, client, clients, use_embedded,
                         _broker_instance, _embedded_broker, sup_pubs>>
       /\ (sup_running /\ ~sup_running') =>
             /\ StopCalled
             /\ Len(OfflinePublishes(sup_pubs')) = Len(OfflinePublishes(sup_pubs)) + 1
       /\ ~(sup_running /\ ~sup_running') =>
             OfflinePublishes(sup_pubs') = OfflinePublishes(sup_pubs)]_vars

\* start(), stop(), stop(): the second stop() has returned at its first test
\* and one "OFFLINE" has been published
C19_Witness ==
    /\ nCalls = 3
    /\ st.op = "stop" /\ st.pc = "idle" /\ st.early
    /\ ~sup_running /\ client = 0
    /\ Len(OfflinePublishes(sup_pubs)) = 1

\* the last call was a stop() on a running server: it is at its disconnect
\* or has returned
StopFromRunning == st.op = "stop" /\ ~st.early

\* the "OFFLINE" status publish made last (a message handler may publish a
\* reading after it)
LastPublish ==
    LET S == {i \in DOMAIN sup_pubs : /\ sup_pubs[i].topic = topics.status
                                      /\ sup_pubs[i].payload = "OFFLINE"}
    IN  sup_pubs[CHOOSE i \in S : \A j \in S : j <= i]

\* the in-process broker holds the retained "OFFLINE" status: still on its
\* queue, or already in its retained store
OfflineAtBroker ==
    \/ \E i \in DOMAIN _embedded_broker.message_queue :
          _embedded_broker.message_queue[i] = Msg(topics.status, "OFFLINE", TRUE)
    \/ \E i \in DOMAIN _embedded_broker.retained_messages :
          _embedded_broker.retained_messages[i] =
              [topic |-> topics.status, payload |-> "OFFLINE"]

\* C20: a stop() on a running server publishes "OFFLINE", retained, on
\* spectrometer/status through the active client while that client is still
\* connected, then disconnects it; afterwards the server is not running and
\* has no client.
C20_OfflineBeforeDisconnect ==
    StopFromRunning =>
        /\ ~sup_running
        /\ OfflinePublishes(sup_pubs) # <<>>
        /\ LastPublish.retain
        /\ LastPublish.connected
        /\ (clients[LastPublish.client].kind = "embedded" => OfflineAtBroker)
        /\ IF st.pc = "disconnect"
           THEN client = LastPublish.client /\ clients[client].connected
           ELSE client = 0 /\ ~clients[LastPublish.client].connected

\* a stop() on a server running on the in-process backend has returned
C20_Witness ==
    /\ StopFromRunning
    /\ st.pc = "idle"
    /\ clients[LastPublish.client].kind = "embedded"
    /\ client = 0

-----------------------------------------------------------------------------
(* The server's subscriptions and message handling (SpecSup) *)

\* every callback in the in-process broker's registry belongs to a client
\* that is connected
RegistryOfConnectedClients ==
    \A i \in DOMAIN _embedded_broker.subscribers :
        clients[_embedded_broker.subscribers[i].client].connected

\* on_message has only been called for callbacks of clients connected at the
\* time
HandlerOnlyForConnectedClients ==
    \A i \in DOMAIN sup_log : sup_log[i].kind = "message" => sup_log[i].live

\* C21: on the in-process backend a subscription does not outlive its
\* client: once the server's client is disconnected (stop()), the broker's
\* registry holds none of its callbacks, and no later publish on a config or
\* control topic calls the stopped server's on_message.
C21_SubscriptionDiesWithClient ==
    /\ RegistryOfConnectedClients
    /\ HandlerOnlyForConnectedClients

\* the payloads that are decimal integers, with the integer each one writes
DecimalIntegers == ("3" :> 3)

\* this step is a call of on_message for a message on the given topic
Handles(topic) ==
    /\ Len(sup_log') > Len(sup_log)
    /\ sup_log'[Len(sup_log) + 1].kind = "message"
    /\ sup_log'[Len(sup_log) + 1].topic = topic

\* the payload of the message this step's on_message call handles
HandledPayload == sup_log'[Len(sup_log) + 1].payload

\* C23: a message on spectrometer/config/incorrect_elements whose payload is
\* not a decimal integer leaves metal_grade, incorrect_elements_count,
\* temperature and latest_reading as they were and publishes nothing (the
\* error stays in the handler); a message on that topic whose payload is a
\* decimal integer sets incorrect_elements_count to it, whatever was handled
\* before.
C23_ParseFailureContained ==
    [][Handles(topics.config_incorrect_elements) =>
          IF HandledPayload \in DOMAIN DecimalIntegers
          THEN /\ incorrect_elements_count' = DecimalIntegers[HandledPayload]
               /\ UNCHANGED <<metal_grade, temperature, latest_reading, sup_pubs>>
          ELSE UNCHANGED <<cfgVars, sup_pubs>>]_vars

\* a payload that is no integer has been handled on
\* spectrometer/config/incorrect_elements, and after it one that is
C23_Witness ==
    \E i, j \in DOMAIN sup_log :
        /\ i < j
        /\ sup_log[i].kind = "message" /\ sup_log[j].kind = "message"
        /\ sup_log[i].topic = topics.config_incorrect_elements
        /\ sup_log[j].topic = topics.config_incorrect_elements
        /\ sup_log[i].payload \notin DOMAIN DecimalIntegers
        /\ sup_log[j].payload \in DOMAIN DecimalIntegers
        /\ sup_log[j].count = sup_log[i].count
        /\ incorrect_elements_count = DecimalIntegers[sup_log[j].payload]
        /\ incorrect_elements_count # sup_log[j].count

\* this step is, or ends with, a call of generate_reading
Generates ==
    /\ Len(sup_log') > Len(sup_log)
    /\ sup_log'[Len(sup_log')].kind = "generate"

\* the call-log entry of the generate_reading call of this step: the grade
\* and the count it was called with, and whether simulate_reading returned
Generated == sup_log'[Len(sup_log')]

\* the messages of the in-process broker, queued and retained, on the two
\* data topics
DataMessages(broker) ==
    <<SelectSeq(broker.message_queue,
                LAMBDA m : m.topic \in {topics.data_reading, topics.data_temperature}),
      SelectSeq(broker.retained_messages,
                LAMBDA m : m.topic \in {topics.data_reading, topics.data_temperature})>>

\* C24: when the configured grade has no composition profile,
\* simulate_reading raises and gives no reading; generate_reading returns
\* None, publishes nothing (so nothing on spectrometer/data/reading or
\* spectrometer/data/temperature), and leaves latest_reading and temperature
\* as they were.
C24_UnknownGradeNoPartialReading ==
    [][Generates /\ Generated.grade \notin DOMAIN metal_grade_specs =>
          /\ ~Generated.ok
          /\ UNCHANGED <<latest_reading, temperature, sup_pubs>>
          /\ DataMessages(_embedded_broker') = DataMessages(_embedded_broker)]_vars

\* generate_reading has been called with a grade that has no profile, on a
\* server that holds an earlier reading
C24_Witness ==
    /\ sup_log # <<>>
    /\ sup_log[Len(sup_log)].kind = "generate"
    /\ sup_log[Len(sup_log)].grade = "Unobtainium"
    /\ sup_log[Len(sup_log)].count = 2
    /\ latest_reading = ReadingStr("SG-Iron", 2)
    /\ client # 0

\* the server's client is connected
Connected == client # 0 /\ clients[client].connected

\* the on_message calls made so far
HandlerCalls == SelectSeq(sup_log, LAMBDA e : e.kind = "message")

\* what a generate_reading with this grade and count publishes: the reading,
\* retained, on spectrometer/data/reading, then the temperature, retained,
\* on spectrometer/data/temperature
ReadingPublishes(grade, count) ==
    <<Msg(topics.data_reading, ReadingStr(grade, count), TRUE),
      Msg(topics.data_temperature, "0.0", TRUE)>>

\* a message on spectrometer/config/metal_grade sets metal_grade to the
\* payload and changes nothing else
MetalGradeEffect ==
    Connected /\ Handles(topics.config_metal_grade) =>
        /\ metal_grade' = HandledPayload
        /\ UNCHANGED <<incorrect_elements_count, temperature, latest_reading, sup_pubs>>

\* a message on spectrometer/control/generate_reading, with a grade and a
\* count simulate_reading accepts, makes the reading of the current grade and
\* count and publishes it and then the temperature
GenerateReadingEffect ==
    Connected /\ Handles(topics.control_generate_reading)
              /\ Simulates(metal_grade, incorrect_elements_count) =>
        /\ UNCHANGED <<metal_grade, incorrect_elements_count>>
        /\ latest_reading' = ReadingStr(metal_grade, incorrect_elements_count)
        /\ sup_pubs' = sup_pubs \o
              Stamp(ReadingPublishes(metal_grade, incorrect_elements_count), client, TRUE)

\* C25: the server dispatches inbound messages by topic only: on_message
\* runs once for each message on a subscribed topic and for no other
\* message; a message on spectrometer/config/metal_grade sets metal_grade to
\* the payload and changes nothing else; a message on
\* spectrometer/control/generate_reading generates one reading with the
\* current grade and count and publishes it retained on
\* spectrometer/data/reading, then the temperature retained on
\* spectrometer/data/temperature; a message on another topic changes nothing
\* and publishes nothing.
C25_DispatchByTopic ==
    /\ [](/\ Len(HandlerCalls) <= nInbound
          /\ \A i \in DOMAIN HandlerCalls :
                \E k \in DOMAIN ConnectSubscriptions :
                    HandlerCalls[i].topic = ConnectSubscriptions[k])
    /\ [][MetalGradeEffect /\ GenerateReadingEffect]_vars

-----------------------------------------------------------------------------
(* The in-process broker's retained store, queue and dispatch thread *)

\* the messages the dispatch thread has taken from the queue, oldest first
\* (the queue is first-in first-out and only the dispatch thread takes)
Dequeued == [i \in 1..(Len(pubs) - Len(message_queue)) |-> pubs[i].msg]

\* the retained messages on a topic among the dispatched ones
RetainedOn(topic) ==
    {i \in DOMAIN Dequeued : Dequeued[i].retain /\ Dequeued[i].topic = topic}

\* the entries of the retained store for a topic
StoreEntries(topic) ==
    {i \in DOMAIN retained_messages : retained_messages[i].key = topic}

\* this step takes a message with retain=false from the queue
TakesUnretained ==
    /\ Len(message_queue') < Len(message_queue)
    /\ ~Head(message_queue).retain

\* C26: the retained store of the in-process broker holds at most one entry
\* per topic, and the entry for a topic is the most recently dispatched
\* message on it that had retain=true (none when there was none); the
\* dispatch of a message with retain=false leaves the store unchanged.
C26_RetainedLastWriteWins ==
    /\ [](\A topic \in BTopics :
            IF RetainedOn(topic) = {}
            THEN StoreEntries(topic) = {}
            ELSE LET last == CHOOSE i \in RetainedOn(topic) :
                                \A j \in RetainedOn(topic) : j <= i
                 IN  /\ Cardinality(StoreEntries(topic)) = 1
                     /\ \A e \in StoreEntries(topic) :
                           /\ retained_messages[e].id = Dequeued[last].id
                           /\ retained_messages[e].payload = Dequeued[last].payload)
    /\ [][TakesUnretained => UNCHANGED retained_messages]_vars

\* two retained messages on one topic have been dispatched, and after them a
\* message with retain=false
C26_Witness ==
    \E i, j, k \in DOMAIN Dequeued :
        /\ i < j /\ j < k
        /\ Dequeued[i].retain /\ Dequeued[j].retain /\ ~Dequeued[k].retain
        /\ Dequeued[i].topic = Dequeued[j].topic
        /\ Dequeued[k].topic = Dequeued[j].topic
        /\ \E e \in DOMAIN retained_messages : retained_messages[e].id = Dequeued[j].id

\* the callback of the first subscribe call, and its filter (no unsubscribe
\* has been made: the first registry entry and the first callback of its list
\* are those of the first subscribe)
FirstFilter == subscribers[1].key
FirstCallback == lists[subscribers[1].lid][1]

\* message i was enqueued on the running broker after the first subscribe
\* call had returned, and nothing has been unsubscribed: the first callback
\* is registered at every moment of the message's dispatch
RegisteredThroughout(i) ==
    /\ pubs[i].running
    /\ pubs[i].subOk >= 1
    /\ nUnsub = 0

\* this step is a publish call
Publishes == Len(pubs') > Len(pubs)

\* C27: a message enqueued on the running broker is taken from the queue and
\* dispatched to the callbacks registered under matching filters: once its
\* dispatch has ended, a callback that was registered under a matching filter
\* all the while has been invoked with it.  publish only appends the message
\* to the queue and invokes no callback itself.  While the broker has not
\* been started, nothing is taken from the queue.  (Stated as what has
\* happened when a dispatch has ended.)
C27_EnqueuedIsDispatched ==
    /\ [](\A i \in completed :
            (RegisteredThroughout(i) /\ _topic_matches(pubs[i].msg.topic, FirstFilter))
            => Dispatched(FirstCallback, i) # {})
    /\ [](~running => Dequeued = <<>>)
    /\ [][Publishes =>
            /\ log' = log
            /\ message_queue' = Append(message_queue, pubs'[Len(pubs')].msg)]_vars

\* the dispatch threads that are at _run_broker's
\* `self.message_queue.get(timeout=0.1)` with the loop condition true: each
\* of them takes the next message that is put on the queue
Pulling == {w \in WorkerIds : wst[w].pc = "get" /\ running}

\* C28: at most one dispatch thread takes messages from the queue of the
\* in-process broker at any time, whatever start() and stop() calls have
\* been made, also when start() is called after a stop() whose join timed
\* out with the old thread inside a callback.
C28_OneDispatchWorker == Cardinality(Pulling) <= 1

-----------------------------------------------------------------------------
(* The wire broker's client ids (SpecAcc) *)

\* C29: the client ids of the sessions that are live at the same time are
\* pairwise distinct, whatever accepts and disconnects have happened.
C29_LiveIdsDistinct ==
    \A a, b \in DOMAIN acc_clients :
        a # b => acc_clients[a].client_id # acc_clients[b].client_id

-----------------------------------------------------------------------------
(* The in-process client's subscriptions (SpecCli) *)

\* this step dispatches a message on the topic
DispatchesOn(topic) ==
    /\ nCli' = nCli + 1
    /\ UNCHANGED <<cli_connected, _subscriptions, cli_subscribers, cli_last, nCb>>
    /\ \A i \in (Len(cli_log) + 1)..Len(cli_log') : cli_log'[i].topic = topic

\* C30: once the client's unsubscribe(topic) has returned (and until it
\* subscribes to the topic again), the broker's registry holds no callback
\* the client made for the topic, however often the client had subscribed to
\* it, and a message published on the topic does not reach the client's
\* on_message.
C30_UnsubscribeRemovesAll ==
    /\ [](\A topic \in CTopics :
            cli_last[topic] = "unsubscribe" => CliCallbacks(topic) = <<>>)
    /\ [][\A topic \in CTopics :
            (cli_last[topic] = "unsubscribe" /\ DispatchesOn(topic))
            => cli_log' = cli_log]_vars

-----------------------------------------------------------------------------
(* The two brokers compared (SpecEq) *)

\* C22: given the same sequence of subscribe and publish(topic, payload,
\* retain) calls, every client receives the same sequence of (topic,
\* payload) deliveries from the in-process broker as from the wire broker,
\* the retained payloads replayed on a subscribe included.
C22_BackendsEquivalent ==
    \A c \in EqClients : eq_received[c] = eq_tcp_received[c]

-----------------------------------------------------------------------------
(* subscribe with a callback that raises in the retained replay (SpecEmb) *)

\* thread t's subscribe call is the only registry call made so far, and it
\* has ended because its callback raised when a retained entry was replayed
\* to it
RaisedInReplay(t) ==
    /\ SubscribeOver(t)
    /\ nSub = 1 /\ nUnsub = 0
    /\ tst[t].err
    /\ tst[t].cb \in RaisingCallbacks
    /\ \E k \in (tst[t].startLog + 1)..Len(log[tst[t].cb]) : log[tst[t].cb][k].via = t

\* C31: subscribe(filter, cb) either registers cb and returns normally or
\* leaves the registry as it was: when cb raises while a retained entry is
\* replayed to it, cb is not left registered (the registry, empty before this
\* first subscribe, is empty after it).
C31_SubscribeAllOrNothing ==
    \A t \in Threads : RaisedInReplay(t) => LiveCount(subscribers) = 0

-----------------------------------------------------------------------------
(* The process-wide wire broker instance (SpecSup) *)

\* this step is a _try_tcp_broker in which start_tcp_mqtt_broker() returned
\* True: only then is the paho client made
StartTcpReturnedTrue ==
    /\ st.pc = "try_tcp"
    /\ Len(clients') > Len(clients)

\* C32: start_tcp_mqtt_broker() returns True only if the process-wide wire
\* broker instance is listening, whatever calls of start_tcp_mqtt_broker and
\* stop_tcp_mqtt_broker came before, a start whose bind failed included.
C32_TrueOnlyIfListening ==
    [][StartTcpReturnedTrue => _broker_instance' = "listening"]_vars

-----------------------------------------------------------------------------
(* The server's reading fields and what it has published (SpecSup) *)

\* the payloads published so far on a topic, in order
PublishedOn(topic) == SelectSeq(sup_pubs, LAMBDA p : p.topic = topic)

\* the payload last published on a topic, or the given value when nothing
\* has been published on it
LastPublishedOn(topic, initial) ==
    IF PublishedOn(topic) = <<>> THEN initial
    ELSE PublishedOn(topic)[Len(PublishedOn(topic))].payload

\* C33: latest_reading and temperature are the payloads the server last
\* published on spectrometer/data/reading and spectrometer/data/temperature
\* (their initial values while nothing has been published): generate_reading
\* does not update them without both publishes having been issued, also when
\* it is called with no backend active.
C33_FieldsEqualLastPublished ==
    /\ latest_reading = LastPublishedOn(topics.data_reading, "")
    /\ temperature = LastPublishedOn(topics.data_temperature, "0.0")
=============================================================================
